---- MODULE Spec2Model ----
(***************************************************************************)
(* Model of the extraction pipeline of the Obsidian AI image OCR plugin:   *)
(* the embed locator (src/utils/embed.ts), the PDF rasterizer              *)
(* (src/utils/pdf.ts), the commands of src/main.ts and the handlers of the *)
(* settings tab (src/settings-tab.ts).                                     *)
(*                                                                         *)
(* Text is modelled as a sequence of one-character strings, so that the    *)
(* regular expressions of the source are evaluated on characters.          *)
(***************************************************************************)
EXTENDS Integers, Sequences, FiniteSets, TLC

\* ------------------------------------------------------------------------
\* Characters and strings
\* ------------------------------------------------------------------------

\* String.prototype.toLowerCase on one character (the /i flag of the regexes).
Lower(c) ==
    CASE c = "A" -> "a" [] c = "B" -> "b" [] c = "D" -> "d" [] c = "E" -> "e"
      [] c = "F" -> "f" [] c = "G" -> "g" [] c = "H" -> "h" [] c = "I" -> "i"
      [] c = "J" -> "j" [] c = "M" -> "m" [] c = "N" -> "n" [] c = "P" -> "p"
      [] c = "S" -> "s" [] c = "T" -> "t" [] c = "V" -> "v" [] c = "W" -> "w"
      [] OTHER -> c

LowerSeq(s) == [i \in 1..Len(s) |-> Lower(s[i])]

\* s contains the literal t starting at position i.
HasAt(s, i, t) ==
    /\ i >= 1
    /\ i + Len(t) - 1 <= Len(s)
    /\ \A k \in 1..Len(t) : s[i + k - 1] = t[k]

\* The line terminators of ECMAScript: LF, CR, LINE SEPARATOR and PARAGRAPH
\* SEPARATOR. A character with no escape in a string here is written as the
\* one-character text of its code point.
LineTerminators == {"\n", "\r", "U+2028", "U+2029"}

\* The white space of ECMAScript that is no line terminator: TAB, VT, FF,
\* SP, NBSP, ZWNBSP and the other space separators of Unicode.
WhiteSpace ==
    {"\t", "U+000B", "\f", " ", "U+00A0", "U+FEFF", "U+1680", "U+2000",
     "U+2001", "U+2002", "U+2003", "U+2004", "U+2005", "U+2006", "U+2007",
     "U+2008", "U+2009", "U+200A", "U+202F", "U+205F", "U+3000"}

\* The regex "." (no s flag) matches every character but a line terminator.
NoNewline(s, a, b) == \A k \in a..b : s[k] \notin LineTerminators

SetMin(S) == CHOOSE x \in S : \A y \in S : x <= y

SetMax(S) == CHOOSE x \in S : \A y \in S : x >= y

\* Position of the first / last occurrence of character c in s, 0 when absent
\* (String.prototype.indexOf / lastIndexOf, shifted to 1-based positions).
IndexOf(s, c) ==
    LET P == {i \in 1..Len(s) : s[i] = c} IN IF P = {} THEN 0 ELSE SetMin(P)

LastIndexOf(s, c) ==
    LET P == {i \in 1..Len(s) : s[i] = c} IN IF P = {} THEN 0 ELSE SetMax(P)

\* s.split(c)[0]: the part of s before the first c.
SplitFirst(s, c) ==
    LET i == IndexOf(s, c) IN IF i = 0 THEN s ELSE SubSeq(s, 1, i - 1)

\* What String.prototype.trim strips and the regex \s matches.
IsSpace(c) == c \in WhiteSpace \cup LineTerminators

\* String.prototype.trim.
Trim(s) ==
    LET P == {i \in 1..Len(s) : ~IsSpace(s[i])}
    IN  IF P = {} THEN <<>> ELSE SubSeq(s, SetMin(P), SetMax(P))

\* s.replace(/["']/g, ""): every quote character removed.
RECURSIVE StripQuotes(_)
StripQuotes(s) ==
    IF s = <<>> THEN <<>>
    ELSE IF Head(s) \in {"\"", "'"} THEN StripQuotes(Tail(s))
         ELSE <<Head(s)>> \o StripQuotes(Tail(s))

\* s ends with the literal t, compared case-insensitively.
EndsWithCI(s, t) ==
    /\ Len(s) >= Len(t)
    /\ LowerSeq(SubSeq(s, Len(s) - Len(t) + 1, Len(s))) = t

StartsWithCI(s, t) ==
    /\ Len(s) >= Len(t)
    /\ LowerSeq(SubSeq(s, 1, Len(t))) = t

\* ------------------------------------------------------------------------
\* src/utils/embed.ts: findRelevantImageEmbed
\* ------------------------------------------------------------------------

NoMatch == [found |-> FALSE, text |-> <<>>, group |-> <<>>]

\* s.match(/!\[\[(.+?)\]\]/) for min = 1 and s.match(/!\[\[.*?\]\]/) for
\* min = 0: the leftmost "![[", then the shortest run of at least min
\* non-newline characters that is followed by "]]".
MatchWiki(s, min) ==
    LET Ends(i) == {j \in (i + 3 + min)..(Len(s) - 1) :
                       /\ HasAt(s, j, <<"]", "]">>)
                       /\ NoNewline(s, i + 3, j - 1)}
        Starts == {i \in 1..Len(s) :
                       HasAt(s, i, <<"!", "[", "[">>) /\ Ends(i) # {}}
    IN  IF Starts = {} THEN NoMatch
        ELSE LET i == SetMin(Starts)
                 j == SetMin(Ends(i))
             IN  [found |-> TRUE,
                  text  |-> SubSeq(s, i, j + 1),
                  group |-> SubSeq(s, i + 3, j - 1)]

\* s.match(/!\[.*?\]\((.+?)\)/) for min = 1 and s.match(/!\[.*?\]\(.*?\)/)
\* for min = 0: the leftmost "![", the nearest "](" after it from which the
\* rest matches, and the nearest ")" after at least min characters.
MatchMarkdown(s, min) ==
    LET Closes(k) == {m \in (k + 2 + min)..Len(s) :
                         s[m] = ")" /\ NoNewline(s, k + 2, m - 1)}
        Mids(i)   == {k \in (i + 2)..(Len(s) - 1) :
                         /\ HasAt(s, k, <<"]", "(">>)
                         /\ NoNewline(s, i + 2, k - 1)
                         /\ Closes(k) # {}}
        Starts    == {i \in 1..Len(s) :
                         HasAt(s, i, <<"!", "[">>) /\ Mids(i) # {}}
    IN  IF Starts = {} THEN NoMatch
        ELSE LET i == SetMin(Starts)
                 k == SetMin(Mids(i))
                 m == SetMin(Closes(k))
             IN  [found |-> TRUE,
                  text  |-> SubSeq(s, i, m),
                  group |-> SubSeq(s, k + 2, m - 1)]

\* The alternatives of /\.(png|jpe?g|gif|webp|bmp|svg|pdf)$/i.
ImageSuffixes ==
    { <<".", "p", "n", "g">>, <<".", "j", "p", "g">>,
      <<".", "j", "p", "e", "g">>, <<".", "g", "i", "f">>,
      <<".", "w", "e", "b", "p">>, <<".", "b", "m", "p">>,
      <<".", "s", "v", "g">>, <<".", "p", "d", "f">> }

isImageNoPdf(link) ==
    \E t \in ImageSuffixes \ {<<".", "p", "d", "f">>} : EndsWithCI(link, t)

\* const isImage = (link) => imageExt.test(link)
isImage(link) == \E t \in ImageSuffixes : EndsWithCI(link, t)

\* /^https?:\/\//i.test(link)
IsHttpUrl(link) ==
    \/ StartsWithCI(link, <<"h", "t", "t", "p", ":", "/", "/">>)
    \/ StartsWithCI(link, <<"h", "t", "t", "p", "s", ":", "/", "/">>)

\* The null result of the locator.
NoEmbed == [link |-> <<>>, isExternal |-> FALSE, embedType |-> "none",
            embedText |-> <<>>]

\* match[1].split("|")[0].trim()
WikiLink(group) == Trim(SplitFirst(group, "|"))

\* match[1].split(" ")[0].replace(/["']/g, "")
MarkdownLink(group) == StripQuotes(SplitFirst(group, " "))

\* Checks 1 and 2 of the locator on one text (the selection, or one line):
\* the first ![[...]] if its link is an image, else the first ![..](..) if
\* its link is an image, else nothing.
EmbedInText(s) ==
    LET w == MatchWiki(s, 1)
        m == MatchMarkdown(s, 1)
    IN  IF w.found /\ isImage(WikiLink(w.group))
        THEN [link |-> WikiLink(w.group), isExternal |-> FALSE,
              embedType |-> "internal", embedText |-> w.text]
        ELSE IF m.found /\ isImage(MarkdownLink(m.group))
        THEN [link |-> MarkdownLink(m.group),
              isExternal |-> IsHttpUrl(MarkdownLink(m.group)),
              embedType |-> "external", embedText |-> m.text]
        ELSE NoEmbed

\* for (let i = editor.getCursor().line; i >= 0; i--): the nearest line at or
\* above the cursor (0-based) on which checks 1 and 2 accept an embed.
ScanLines(lines, cursor) ==
    LET H == {i \in 0..cursor : EmbedInText(lines[i + 1]) # NoEmbed}
    IN  IF H = {} THEN NoEmbed ELSE EmbedInText(lines[SetMax(H) + 1])

\* The strategies findRelevantImageEmbed runs, in order, with what each
\* returned: the line scan is reached only when the selection gave nothing.
FindRelevantTraceLinesFirst(ed) ==
    LET l == ScanLines(ed.lines, ed.cursor)
    IN  IF l # NoEmbed
        THEN << [strategy |-> "lines", result |-> l] >>
        ELSE << [strategy |-> "lines", result |-> NoEmbed],
                [strategy |-> "selection", result |-> EmbedInText(ed.sel)] >>

FindRelevantTrace(ed) ==
    LET s == EmbedInText(ed.sel)
    IN  IF s # NoEmbed
        THEN << [strategy |-> "selection", result |-> s] >>
        ELSE << [strategy |-> "selection", result |-> NoEmbed],
                [strategy |-> "lines",
                 result |-> ScanLines(ed.lines, ed.cursor)] >>

findRelevantImageEmbed(ed) ==
    LET tr == FindRelevantTrace(ed) IN tr[Len(tr)].result

\* ------------------------------------------------------------------------
\* src/utils/embed.ts: parseEmbedInfo
\* ------------------------------------------------------------------------

\* The first position >= from of s that holds one of chars, 0 when none.
FirstOf(s, from, chars) ==
    LET P == {k \in from..Len(s) : s[k] \in chars}
    IN  IF P = {} THEN 0 ELSE SetMin(P)

\* embedMarkdown.match(/!\[([^\]]*)\]\(([^)]+)\)/): "![", the characters up
\* to the first "]", "(" right after it, and at least one character up to
\* the first ")"; the leftmost such place.
MatchMarkdownInfo(s) ==
    LET Closing(i) == FirstOf(s, i + 2, {"]"})
        Paren(i) == FirstOf(s, Closing(i) + 2, {")"})
        starts == {i \in 1..Len(s) :
                      /\ HasAt(s, i, <<"!", "[">>)
                      /\ Closing(i) # 0
                      /\ HasAt(s, Closing(i) + 1, <<"(">>)
                      /\ Paren(i) > Closing(i) + 2}
    IN  IF starts = {} THEN [found |-> FALSE, alt |-> <<>>, url |-> <<>>]
        ELSE LET i == SetMin(starts)
             IN  [found |-> TRUE,
                  alt |-> SubSeq(s, i + 2, Closing(i) - 1),
                  url |-> SubSeq(s, Closing(i) + 2, Paren(i) - 1)]

\* embedMarkdown.match(/!\[\[([^\]|]+)(?:\|([^\]]+))?\]\]/): "![[", at least
\* one character up to the first "]" or "|", then either "]]" or "|", at
\* least one character up to the first "]", and "]]"; the leftmost such
\* place.
MatchObsidianInfo(s) ==
    LET End1(i) == FirstOf(s, i + 3, {"]", "|"})
        End2(i) == FirstOf(s, End1(i) + 1, {"]"})
        Plain(i) == HasAt(s, End1(i), <<"]", "]">>)
        Aliased(i) == /\ s[End1(i)] = "|"
                      /\ End2(i) > End1(i) + 1
                      /\ HasAt(s, End2(i), <<"]", "]">>)
        starts == {i \in 1..Len(s) :
                      /\ HasAt(s, i, <<"!", "[", "[">>)
                      /\ End1(i) > i + 3
                      /\ (Plain(i) \/ Aliased(i))}
    IN  IF starts = {} THEN [found |-> FALSE, alt |-> <<>>, url |-> <<>>]
        ELSE LET i == SetMin(starts)
             IN  [found |-> TRUE,
                  alt |-> IF Plain(i) THEN <<>>
                          ELSE SubSeq(s, End1(i) + 1, End2(i) - 1),
                  url |-> SubSeq(s, i + 3, End1(i) - 1)]

\* The name taken up to the first dot of the url.
NameAndExtensionFirstDot(url) ==
    LET dot == IndexOf(url, ".")
    IN  IF dot = 0 THEN [name |-> url, extension |-> <<>>]
        ELSE [name |-> SubSeq(url, 1, dot - 1),
              extension |-> SubSeq(url, dot + 1, Len(url))]

\* The name and extension parseEmbedInfo cuts out of url with lastIndexOf:
\* the dot counts only when it comes after the last slash.
NameAndExtension(url) ==
    LET lastSlash == LastIndexOf(url, "/")
        lastDot == LastIndexOf(url, ".")
    IN  IF lastDot > 0 /\ lastDot > lastSlash
        THEN [name |-> SubSeq(url, lastSlash + 1, lastDot - 1),
              extension |-> SubSeq(url, lastDot + 1, Len(url))]
        ELSE IF lastSlash > 0
        THEN [name |-> SubSeq(url, lastSlash + 1, Len(url)),
              extension |-> <<>>]
        ELSE [name |-> url, extension |-> <<>>]

parseEmbedInfo(embedMarkdown, link) ==
    LET md == MatchMarkdownInfo(embedMarkdown)
        obs == MatchObsidianInfo(embedMarkdown)
        url == IF md.found THEN md.url
               ELSE IF obs.found THEN obs.url ELSE link
        altText == IF md.found THEN md.alt
                   ELSE IF obs.found THEN obs.alt ELSE <<>>
    IN  [name |-> NameAndExtension(url).name,
         extension |-> NameAndExtension(url).extension,
         path |-> url,
         altText |-> altText]

\* ------------------------------------------------------------------------
\* The two fallbacks of the embedded-image command (imported by main.ts from
\* utils/embed; modelled from section 4.1 of the specification: the same two
\* pattern checks and the same extension filter as the locator).
\* ------------------------------------------------------------------------

\* The first indexed embed of the file whose link is an image.
findImageEmbedFromCache(cached) ==
    LET H == {i \in 1..Len(cached) : isImage(cached[i])}
    IN  IF H = {} THEN NoEmbed
        ELSE [link |-> cached[SetMin(H)], isExternal |-> FALSE,
              embedType |-> "internal",
              embedText |-> <<"!", "[", "[">> \o cached[SetMin(H)]
                               \o <<"]", "]">>]

\* The regex scan of the file's on-disk content.
findImageEmbedInFileContent(content) == EmbedInText(content)

\* ------------------------------------------------------------------------
\* Inputs: documents, cursors and selections
\* ------------------------------------------------------------------------

\* ![[a.png]]
LineWikiPng ==
    <<"!", "[", "[", "a", ".", "p", "n", "g", "]", "]">>

\* ![[n.md]] ![[a.png]]
LineNoteThenPng ==
    <<"!", "[", "[", "n", ".", "m", "d", "]", "]", " ",
      "!", "[", "[", "a", ".", "p", "n", "g", "]", "]">>

\* ![x](b.JPG)
LineMdJpg ==
    <<"!", "[", "x", "]", "(", "b", ".", "J", "P", "G", ")">>

\* ![](http://h/c.pdf 't')
LineMdUrl ==
    <<"!", "[", "]", "(", "h", "t", "t", "p", ":", "/", "/", "h", "/",
      "c", ".", "p", "d", "f", " ", "'", "t", "'", ")">>

\* ![[d.PDF|al]]
LineWikiPdfAlias ==
    <<"!", "[", "[", "d", ".", "P", "D", "F", "|", "a", "l", "]", "]">>

\* text
LineText ==
    <<"t", "e", "x", "t">>

\* ![z](e.gif) ![[f.svg]]
LineMdThenWiki ==
    <<"!", "[", "z", "]", "(", "e", ".", "g", "i", "f", ")", " ",
      "!", "[", "[", "f", ".", "s", "v", "g", "]", "]">>

\* ![[png]] ![[j.jpe]] ![[ k.jpeg ]]
LineOddLinks ==
    <<"!", "[", "[", "p", "n", "g", "]", "]", " ",
      "!", "[", "[", "j", ".", "j", "p", "e", "]", "]", " ",
      "!", "[", "[", " ", "k", ".", "j", "p", "e", "g", " ", "]", "]">>

\* ![[g.png]] with a form feed before the closing brackets
LineWikiFormFeed ==
    <<"!", "[", "[", "g", ".", "p", "n", "g", "\f", "]", "]">>

\* ![[h.png]] with a carriage return after the h
LineWikiReturn ==
    <<"!", "[", "[", "h", "\r", ".", "p", "n", "g", "]", "]">>

\* The wiki embed ![[DIR/BASE.EXT|ALT]], without |ALT when alt is empty.
WikiEmbed(dir, base, ext, alt) ==
    <<"!", "[", "[">> \o dir \o <<"/">> \o base \o <<".">> \o ext
        \o (IF alt = <<>> THEN <<>> ELSE <<"|">> \o alt) \o <<"]", "]">>

\* The parts the wiki embeds are built from: "f" and "a.b/c", "p" and
\* "p.v2", "PNG", and no alias, "c" or "c|d".
EmbedDirs == { <<"f">>, <<"a", ".", "b", "/", "c">> }

EmbedBases == { <<"p">>, <<"p", ".", "v", "2">> }

EmbedExtensions == { <<"P", "N", "G">> }

EmbedAlts == { <<>>, <<"c">>, <<"c", "|", "d">> }

WikiEmbedDocs ==
    { <<WikiEmbed(dir, base, ext, alt)>> :
        dir \in EmbedDirs, base \in EmbedBases, ext \in EmbedExtensions,
        alt \in EmbedAlts }

LinePool ==
    { <<>>, LineWikiPng, LineNoteThenPng, LineMdJpg, LineMdUrl,
      LineWikiPdfAlias, LineText, LineMdThenWiki, LineOddLinks,
      LineWikiFormFeed, LineWikiReturn }

\* The longest document of the locator's specification, in lines.
MaxLines == 2

RECURSIVE SeqsUpTo(_, _)
SeqsUpTo(S, n) ==
    IF n = 0 THEN {<<>>}
    ELSE LET R == SeqsUpTo(S, n - 1)
         IN  R \cup {Append(r, x) : r \in {q \in R : Len(q) = n - 1}, x \in S}

Docs == SeqsUpTo(LinePool, MaxLines) \ {<<>>}

\* The selections of a line: nothing, the whole line, and every stretch
\* from the start of an embed ("!") to a closing bracket.
SelectionsOf(line) ==
    {<<>>, line} \cup
    {SubSeq(line, a, b) :
        a \in {i \in 1..Len(line) : line[i] = "!"},
        b \in {j \in 1..Len(line) : line[j] \in {"]", ")"}}}

EditorsOf(docs) ==
    UNION { UNION { {[lines |-> d, cursor |-> c, sel |-> s] :
                        s \in SelectionsOf(d[c + 1])} :
                    c \in 0..(Len(d) - 1)} :
            d \in docs }

\* The documents the whole command is run on: one line per kind of embed.
CommandDocs ==
    { <<LineText>>, <<LineWikiPng>>, <<LineMdUrl>>, <<LineWikiPdfAlias>>,
      <<LineMdJpg, LineText>>, <<LineMdThenWiki>> }
        \cup WikiEmbedDocs

\* The editor states of the command: the cursor on the last line, nothing
\* selected or the whole line selected.
CommandEditors ==
    { e \in EditorsOf(CommandDocs) :
        /\ e.cursor = Len(e.lines) - 1
        /\ e.sel \in {<<>>, e.lines[e.cursor + 1]} }

\* What the metadata cache may hold for the file: its indexed embed links.
CacheInputs ==
    { <<>>,
      << <<"n", ".", "m", "d">> >>,
      << <<"n", ".", "m", "d">>, <<"d", ".", "P", "D", "F">> >> }

\* What the file may hold on disk (it can differ from the unsaved editor).
DiskContents == { <<>>, LineText, LineWikiPng, LineMdUrl }

\* ------------------------------------------------------------------------
\* src/utils/pdf.ts: byte buffers, isPdfFile, isPdfBuffer, base64
\* ------------------------------------------------------------------------

Min(a, b) == IF a <= b THEN a ELSE b

\* Buffers are sequences of byte values.
\* "%PDF-1"
BufPdf == <<37, 80, 68, 70, 45, 49>>

\* The PNG signature's first bytes.
BufPng == <<137, 80, 78, 71>>

\* "%PD": shorter than the magic.
BufShort == <<37, 80, 68>>

BufEmpty == <<>>

\* No buffer (null).
NoBuffer == <<-1>>

Buffers == {BufPdf, BufPng, BufShort, BufEmpty}

\* String.fromCharCode(...new Uint8Array(buffer.slice(0, 5))) === "%PDF-"
isPdfBuffer(buf) == SubSeq(buf, 1, Min(5, Len(buf))) = <<37, 80, 68, 70, 45>>

\* /\.pdf$/i.test(fileName)
isPdfFile(fileName) == EndsWithCI(fileName, <<".", "p", "d", "f">>)

B64Alphabet ==
    << "A", "B", "C", "D", "E", "F", "G", "H", "I", "J", "K", "L", "M",
       "N", "O", "P", "Q", "R", "S", "T", "U", "V", "W", "X", "Y", "Z",
       "a", "b", "c", "d", "e", "f", "g", "h", "i", "j", "k", "l", "m",
       "n", "o", "p", "q", "r", "s", "t", "u", "v", "w", "x", "y", "z",
       "0", "1", "2", "3", "4", "5", "6", "7", "8", "9", "+", "/" >>

B64(n) == B64Alphabet[n + 1]

\* btoa of the bytes: three bytes to four characters, "=" padding.
RECURSIVE arrayBufferToBase64(_)
arrayBufferToBase64(buf) ==
    IF Len(buf) = 0 THEN <<>>
    ELSE IF Len(buf) = 1
    THEN << B64(buf[1] \div 4), B64((buf[1] % 4) * 16), "=", "=" >>
    ELSE IF Len(buf) = 2
    THEN << B64(buf[1] \div 4),
            B64((buf[1] % 4) * 16 + buf[2] \div 16),
            B64((buf[2] % 16) * 4), "=" >>
    ELSE << B64(buf[1] \div 4),
            B64((buf[1] % 4) * 16 + buf[2] \div 16),
            B64((buf[2] % 16) * 4 + buf[3] \div 64),
            B64(buf[3] % 64) >>
         \o arrayBufferToBase64(SubSeq(buf, 4, Len(buf)))

\* ------------------------------------------------------------------------
\* src/utils/pdf.ts: fetchExternalImageAsArrayBuffer
\* ------------------------------------------------------------------------

\* What requestUrl may do: throw, or answer with a status and a body
\* (NoBuffer for a response without an arrayBuffer).
FetchResponses ==
    { [threw |-> TRUE,  status |-> 0,   body |-> NoBuffer],
      [threw |-> FALSE, status |-> 200, body |-> BufPng],
      [threw |-> FALSE, status |-> 200, body |-> BufPdf],
      [threw |-> FALSE, status |-> 404, body |-> BufPng],
      [threw |-> FALSE, status |-> 200, body |-> NoBuffer],
      [threw |-> FALSE, status |-> 200, body |-> BufEmpty] }

\* if (resp.status !== 200 || !resp.arrayBuffer) throw ...; caught: null.
fetchExternalImageAsArrayBuffer(resp) ==
    IF resp.threw \/ resp.status # 200 \/ resp.body = NoBuffer
    THEN NoBuffer
    ELSE resp.body

\* ------------------------------------------------------------------------
\* src/utils/pdf.ts: convertPdfToImages
\* ------------------------------------------------------------------------

\* s.includes(t)
Includes(s, t) == \E i \in 1..Len(s) : HasAt(s, i, t)

Password == <<"p", "a", "s", "s", "w", "o", "r", "d">>

\* "No password given"
MsgNoPassword ==
    <<"N", "o", " ", "p", "a", "s", "s", "w", "o", "r", "d", " ",
      "g", "i", "v", "e", "n">>

\* "Incorrect Password"
MsgIncorrectPassword ==
    <<"I", "n", "c", "o", "r", "r", "e", "c", "t", " ",
      "P", "a", "s", "s", "w", "o", "r", "d">>

\* "Invalid PDF structure."
MsgInvalidPdf ==
    <<"I", "n", "v", "a", "l", "i", "d", " ", "P", "D", "F", " ",
      "s", "t", "r", "u", "c", "t", "u", "r", "e", ".">>

NoFailure == [isError |-> FALSE, message |-> <<"(none)">>]

\* What getDocument(..).promise may reject with: an Error with a message,
\* or a value that is no Error and carries no message.
LoadFailures ==
    { [isError |-> TRUE,  message |-> MsgNoPassword],
      [isError |-> TRUE,  message |-> MsgIncorrectPassword],
      [isError |-> TRUE,  message |-> MsgInvalidPdf],
      [isError |-> FALSE, message |-> <<>>] }

\* catch (err) { if (err instanceof Error && err.message.includes("password"))
\*   throw new PDFEncryptedError(..); throw new PDFCorruptedError(..); }
ClassifyAlwaysCorrupted(err) == "PDFCorruptedError"

ClassifyLoadFailure(err) ==
    IF err.isError /\ Includes(err.message, Password)
    THEN "PDFEncryptedError"
    ELSE "PDFCorruptedError"

\* const pagesToProcess = Math.min(totalPages, maxPages)
PagesToProcessIgnoringMax(total, max) == total

PagesToProcess(total, max) == Min(total, max)

\* canvas.toDataURL("image/png") of the rendered page, in tokens.
PageDataUrl(p) == <<"data:image/png;base64,", "png-of-page-", ToString(p)>>

\* The data URL kept as it is.
KeepDataUrl(url) == url

\* dataUrl.replace(/^data:image\/png;base64,/, "")
StripPngDataUrlPrefix(url) ==
    IF Len(url) >= 1 /\ url[1] = "data:image/png;base64," THEN Tail(url)
    ELSE url

\* images.push({ pageNumber: pageNum, base64, width, height })
PageImage(p) ==
    [pageNumber |-> p, base64 |-> StripPngDataUrlPrefix(PageDataUrl(p))]

\* The page the loop turns to after a page failed: the catch block and the
\* "continue" both go on with the next page.
PageAfterFailureBreak(p, last) == last + 1

PageAfterFailure(p, last) == p + 1

\* The largest PDF, in pages.
MaxTotalPages == 3

\* The largest "Maximum PDF pages" setting tried.
MaxPdfMaxPages == 3

\* ------------------------------------------------------------------------
\* The provider and the formatter (outside src/: opaque collaborators)
\* ------------------------------------------------------------------------

\* The text a provider extracts from a payload, when it extracts any.
OcrText(base64) == <<"text-of(">> \o base64 \o <<")">>

\* ------------------------------------------------------------------------
\* State
\* ------------------------------------------------------------------------

VARIABLES
    pc,            \* where the running command stands
    result,        \* how the command ended, "" while it runs
    escaped,       \* an exception left the command handler uncaught
    editor,        \* [lines, cursor, sel] of the active editor
    embed,         \* the embed the command works on, NoEmbed for none
    consulted,     \* the locating strategies run so far, with their results
    notices,       \* the user-visible notices shown (pluginLog(.., "notice"))
    progress,      \* the command's Notice object: "none", "shown", "hidden"
    settings,      \* this.settings
    buffer,        \* the source bytes read, NoBuffer for none
    parsed,        \* pdfjs getDocument was called on buffer
    loadFailure,   \* what getDocument rejected with, NoFailure for none
    totalPages,    \* pdf.numPages of the loaded document, 0 for none
    maxPages,      \* the maxPages argument of convertPdfToImages
    pageNum,       \* the page the rasterizer's loop stands at
    outcomes,      \* per page tried: "ok", "noctx" or "threw"
    images,        \* the page images pushed so far
    providerBuilt, \* getProvider() has run
    providerCalls, \* the base64 payloads handed to the provider, in order
    allText,       \* the page texts collected by processPdfFile
    writes,        \* what was written: editor insertions and notes
    files,         \* the FileList the folder picker returned
    tasks,         \* folder batch: the state of each image's preparation
    prepared,      \* folder batch: the PreparedImage array
    hasProcess,    \* folder batch: the provider implements process()
    batchCalls,    \* folder batch: the calls made to the provider
    response,      \* folder batch: the answer of the provider
    matches,       \* folder batch: the blocks parsed out of the response
    contentForFormatting,  \* folder batch: what is handed to the formatter
    perImage,      \* folder batch: one note per image is being written
    noteIdx,       \* folder batch: the index i of the per-image loop
    img,           \* prepareImagePayload: the CollectedImage it is given
    payload,       \* prepareImagePayload: what it returned
    tab            \* the settings tab: what display() last rendered

locVars == <<editor, embed, consulted>>

pdfVars ==
    <<parsed, loadFailure, totalPages, maxPages, pageNum, outcomes, images>>

provVars == <<providerBuilt, providerCalls, allText>>

folderVars ==
    <<files, tasks, prepared, hasProcess, batchCalls, response, matches,
      contentForFormatting, perImage, noteIdx>>

prepVars == <<img, payload>>

\* What only the embedded-image command uses.
embedVars == <<locVars, buffer, pdfVars, providerCalls, allText>>

vars ==
    <<pc, result, escaped, editor, embed, consulted, notices, progress,
      settings, buffer, parsed, loadFailure, totalPages, maxPages, pageNum,
      outcomes, images, providerBuilt, providerCalls, allText, writes,
      files, tasks, prepared, hasProcess, batchCalls, response, matches,
      contentForFormatting, perImage, noteIdx,
      img, payload, tab>>

\* prepareImagePayload has not returned.
NotReturned == [returned |-> FALSE]

\* img.file of a reference that carries no TFile.
NoFile == [exists |-> FALSE, name |-> <<>>]

\* The CollectedImage of a run that prepares none.
NoImage == [source |-> <<>>, isExternal |-> FALSE, file |-> NoFile]

\* The settings tab before it is opened: display() has rendered nothing.
TabClosed == [open |-> FALSE, rendered |-> "", saving |-> FALSE]

InitCommon ==
    /\ result = ""
    /\ escaped = FALSE
    /\ embed = NoEmbed
    /\ consulted = <<>>
    /\ notices = {}
    /\ progress = "none"
    /\ buffer = NoBuffer
    /\ parsed = FALSE
    /\ loadFailure = NoFailure
    /\ totalPages = 0
    /\ maxPages = 0
    /\ pageNum = 0
    /\ outcomes = <<>>
    /\ images = <<>>
    /\ providerBuilt = FALSE
    /\ providerCalls = <<>>
    /\ allText = <<>>
    /\ writes = <<>>
    /\ tasks = <<>>
    /\ prepared = <<>>
    /\ hasProcess = FALSE
    /\ batchCalls = <<>>
    /\ response = <<>>
    /\ matches = <<>>
    /\ contentForFormatting = [isArray |-> FALSE, value |-> <<>>]
    /\ perImage = FALSE
    /\ noteIdx = 0
    /\ payload = NotReturned
    /\ tab = TabClosed

\* DEFAULT_SETTINGS.pdfMaxPages
DefaultPdfMaxPages == 50

\* "OCR {{YYYY}}": a template with a date placeholder only.
TplDate ==
    <<"O", "C", "R", " ", "{", "{", "Y", "Y", "Y", "Y", "}", "}">>

\* "{{image.name}}"
TplImageName ==
    <<"{", "{", "i", "m", "a", "g", "e", ".", "n", "a", "m", "e", "}", "}">>

\* "Notes"
TplFolder == <<"N", "o", "t", "e", "s">>

\* "{{ image.extension }}/x"
TplImageFolder ==
    <<"{", "{", " ", "i", "m", "a", "g", "e", ".", "e", "x", "t", "e", "n",
      "s", "i", "o", "n", " ", "}", "}", "/", "x">>

\* DEFAULT_SETTINGS.ollamaModel: "llama3.2-vision"
DefaultOllamaModel ==
    <<"l", "l", "a", "m", "a", "3", ".", "2", "-", "v", "i", "s", "i", "o",
      "n">>

\* DEFAULT_SETTINGS.lmstudioModel: "google/gemma-3-4b"
DefaultLmstudioModel ==
    <<"g", "o", "o", "g", "l", "e", "/", "g", "e", "m", "m", "a", "-", "3",
      "-", "4", "b">>

\* DEFAULT_SETTINGS, with the templates shortened.
DefaultSettings ==
    [provider              |-> "openai",
     ollamaModel           |-> DefaultOllamaModel,
     lmstudioModel         |-> DefaultLmstudioModel,
     customApiModel        |-> <<>>,
     pdfMaxPages           |-> DefaultPdfMaxPages,
     noteNameTemplate      |-> TplDate,
     noteFolderPath        |-> TplFolder,
     batchNoteNameTemplate |-> TplDate,
     batchNoteFolderPath   |-> TplFolder]

\* The settings the "Maximum PDF pages" field can store: Math.max(0, num).
SettingsChoices ==
    {[DefaultSettings EXCEPT !.pdfMaxPages = n] : n \in 0..MaxPdfMaxPages}

\* The template settings the folder batch reads.
FolderSettingsChoices ==
    {[DefaultSettings EXCEPT !.batchNoteNameTemplate = bn,
                             !.noteNameTemplate = nn,
                             !.batchNoteFolderPath = bf] :
        bn \in {TplDate, TplImageName, <<>>},
        nn \in {TplDate, TplImageName},
        bf \in {TplFolder, TplImageFolder}}

\* ------------------------------------------------------------------------
\* src/main.ts: getProvider
\* ------------------------------------------------------------------------

\* The keys of the factories object literal.
ProviderIds ==
    {"openai", "openai-mini", "openai-4.1", "openai-4.1-mini",
     "openai-4.1-nano", "gemini", "gemini-lite", "gemini-pro",
     "ollama", "lmstudio", "custom"}

\* a || b on strings: b when a is empty.
OrElse(a, b) == IF a # <<>> THEN a ELSE b

\* The model each factory builds its provider with under the settings s:
\* a literal, or for ollama, lmstudio and custom the model of the settings
\* and a literal ("llama3.2-vision", "gemma3", "gpt-4") when that is empty.
ProviderModels(s) ==
    [id \in ProviderIds |->
        CASE id = "openai" ->   \* "gpt-4o"
                <<"g", "p", "t", "-", "4", "o">>
            [] id = "openai-mini" ->   \* "gpt-4o-mini"
                <<"g", "p", "t", "-", "4", "o", "-", "m", "i", "n", "i">>
            [] id = "openai-4.1" ->   \* "gpt-4.1"
                <<"g", "p", "t", "-", "4", ".", "1">>
            [] id = "openai-4.1-mini" ->   \* "gpt-4.1-mini"
                <<"g", "p", "t", "-", "4", ".", "1", "-", "m", "i", "n",
                  "i">>
            [] id = "openai-4.1-nano" ->   \* "gpt-4.1-nano"
                <<"g", "p", "t", "-", "4", ".", "1", "-", "n", "a", "n",
                  "o">>
            [] id = "gemini" ->   \* "models/gemini-2.5-flash"
                <<"m", "o", "d", "e", "l", "s", "/", "g", "e", "m", "i",
                  "n", "i", "-", "2", ".", "5", "-", "f", "l", "a", "s",
                  "h">>
            \* "models/gemini-2.5-flash-lite-preview-06-17"
            [] id = "gemini-lite" ->
                <<"m", "o", "d", "e", "l", "s", "/", "g", "e", "m", "i",
                  "n", "i", "-", "2", ".", "5", "-", "f", "l", "a", "s",
                  "h", "-", "l", "i", "t", "e", "-", "p", "r", "e", "v",
                  "i", "e", "w", "-", "0", "6", "-", "1", "7">>
            [] id = "gemini-pro" ->   \* "models/gemini-2.5-pro"
                <<"m", "o", "d", "e", "l", "s", "/", "g", "e", "m", "i",
                  "n", "i", "-", "2", ".", "5", "-", "p", "r", "o">>
            [] id = "ollama" ->   \* the literal is the default's text
                OrElse(s.ollamaModel, DefaultOllamaModel)
            [] id = "lmstudio" ->
                OrElse(s.lmstudioModel, <<"g", "e", "m", "m", "a", "3">>)
            [] id = "custom" ->
                OrElse(s.customApiModel, <<"g", "p", "t", "-", "4">>)]

\* The class each factory instantiates.
ProviderClass(id) ==
    IF id \in {"gemini", "gemini-lite", "gemini-pro"} THEN "GeminiProvider"
    ELSE "OpenAIProvider"

\* Names every object inherits from Object.prototype. factories[name] is a
\* function for all but __proto__, and factory() calls it with no this.
\* These return a value: "[object Undefined]", a new object, false.
InheritedFunctions == {"toString", "constructor", "isPrototypeOf"}

\* These throw a TypeError, having no object to work on.
InheritedThrowing ==
    {"valueOf", "hasOwnProperty", "propertyIsEnumerable", "toLocaleString",
     "__defineGetter__", "__defineSetter__", "__lookupGetter__",
     "__lookupSetter__"}

\* The message of that TypeError.
InheritedMessage(id) ==
    IF id = "toLocaleString"
    THEN "Object.prototype.toLocaleString called on null or undefined"
    ELSE "Cannot convert undefined or null to object"

\* factories.__proto__ is Object.prototype, an object and no function.
InheritedObjects == {"__proto__"}

\* Identifiers that are no key of factories and no inherited name.
OtherIds == {"bogus", ""}

\* The provider getProvider did not build.
NoInstance(kind, id, name, message) ==
    [kind |-> kind, id |-> id, cls |-> "", model |-> <<>>, name |-> name,
     message |-> message]

\* const factory = factories[provider];
\* if (!factory) throw new Error("Unknown provider"); return factory();
\* under the settings s. The lookup goes through the prototype chain: an
\* inherited function is called, and its result returned or its TypeError
\* thrown; an inherited object is called and that throws a TypeError.
getProvider(s) ==
    LET id == s.provider
    IN  IF id \in ProviderIds
        THEN [kind |-> "instance", id |-> id, cls |-> ProviderClass(id),
              model |-> ProviderModels(s)[id], name |-> "", message |-> ""]
        ELSE IF id \in InheritedFunctions
        THEN NoInstance("value", id, "", "")
        ELSE IF id \in InheritedThrowing
        THEN NoInstance("threw", id, "TypeError", InheritedMessage(id))
        ELSE IF id \in InheritedObjects
        THEN NoInstance("threw", id, "TypeError",
                        "factory is not a function")
        ELSE NoInstance("threw", id, "Error", "Unknown provider")

\* The identifiers the provider field is drawn from besides the default:
\* two keys of factories whose model the settings give, and identifiers
\* that are no key of it.
ConfiguredIds ==
    {"lmstudio", "custom", "toString", "valueOf", "__proto__"}
        \cup OtherIds

\* The provider fields a data.json can hold besides the default.
ProviderSettingsChoices ==
    {[DefaultSettings EXCEPT !.provider = id] : id \in ConfiguredIds}

\* What getProvider did with the configured identifier.
Provider == getProvider(settings)

\* The result the command ends with when no provider instance was built.
NoProviderResult ==
    IF Provider.kind = "threw" THEN Provider.message
    ELSE "provider-not-callable"

\* ------------------------------------------------------------------------
\* src/main.ts: extract-text-from-embedded-image, locating the embed
\* ------------------------------------------------------------------------

\* let embed = findRelevantImageEmbed(editor)
FindRelevant ==
    /\ pc = "start"
    /\ consulted' = FindRelevantTrace(editor)
    /\ embed' = findRelevantImageEmbed(editor)
    /\ pc' = IF embed' # NoEmbed THEN "source" ELSE "cache"
    /\ UNCHANGED <<result, escaped, editor, notices, progress, settings,
                   buffer, pdfVars, provVars, writes>>
    /\ UNCHANGED folderVars
    /\ UNCHANGED prepVars
    /\ UNCHANGED tab

\* if (!embed) embed = findImageEmbedFromCache(this.app, ctx?.file ?? null)
CacheFallback ==
    /\ pc = "cache"
    /\ \E cached \in CacheInputs :
          /\ embed' = findImageEmbedFromCache(cached)
          /\ consulted' = Append(consulted,
                [strategy |-> "cache", result |-> embed'])
    /\ pc' = IF embed' # NoEmbed THEN "source" ELSE "raw"
    /\ UNCHANGED <<result, escaped, editor, notices, progress, settings,
                   buffer, pdfVars, provVars, writes>>
    /\ UNCHANGED folderVars
    /\ UNCHANGED prepVars
    /\ UNCHANGED tab

\* if (!embed) embed = await findImageEmbedInFileContent(...);
\* if (!embed) { pluginLog("No image embed found.", "notice", true); return; }
RawFallback ==
    /\ pc = "raw"
    /\ \E content \in DiskContents :
          /\ embed' = findImageEmbedInFileContent(content)
          /\ consulted' = Append(consulted,
                [strategy |-> "raw", result |-> embed'])
    /\ IF embed' # NoEmbed
       THEN /\ pc' = "source"
            /\ UNCHANGED <<notices, result>>
       ELSE /\ pc' = "done"
            /\ result' = "no-embed"
            /\ notices' = notices \cup {"No image embed found."}
    /\ UNCHANGED <<escaped, editor, progress, settings, buffer, pdfVars,
                   provVars, writes>>
    /\ UNCHANGED folderVars
    /\ UNCHANGED prepVars
    /\ UNCHANGED tab

NextLocate == FindRelevant \/ CacheFallback \/ RawFallback

InitLocate ==
    /\ InitCommon
    /\ pc = "start"
    /\ editor \in EditorsOf(Docs)
    /\ settings = DefaultSettings
    /\ files = <<>>
    /\ img = NoImage

SpecLocate == InitLocate /\ [][NextLocate]_vars

\* ------------------------------------------------------------------------
\* src/main.ts: extract-text-from-embedded-image, reading the source
\* ------------------------------------------------------------------------

\* if (isExternal) arrayBuffer = await fetchExternalImageAsArrayBuffer(link);
\* the fetch reports its own failure and returns null, and then
\* if (!arrayBuffer) { pluginLog("Could not read image data.", ..); return; }
FetchExternal ==
    /\ pc = "source"
    /\ embed.isExternal
    /\ \E resp \in FetchResponses :
          /\ buffer' = fetchExternalImageAsArrayBuffer(resp)
          /\ IF buffer' = NoBuffer
             THEN /\ notices' = notices \cup {"Failed to fetch image.",
                                              "Could not read image data."}
                  /\ pc' = "done"
                  /\ result' = "fetch-failed"
             ELSE /\ pc' = "dispatch"
                  /\ UNCHANGED <<notices, result>>
    /\ UNCHANGED <<escaped, locVars, progress, settings, pdfVars, provVars,
                   writes>>
    /\ UNCHANGED folderVars
    /\ UNCHANGED prepVars
    /\ UNCHANGED tab

\* resolveInternalImagePath(..) is no TFile:
\* pluginLog("Image file not found in vault.", "notice", true); return;
ResolveMissing ==
    /\ pc = "source"
    /\ ~embed.isExternal
    /\ notices' = notices \cup {"Image file not found in vault."}
    /\ pc' = "done"
    /\ result' = "file-not-found"
    /\ UNCHANGED <<escaped, locVars, progress, settings, buffer, pdfVars,
                   provVars, writes>>
    /\ UNCHANGED folderVars
    /\ UNCHANGED prepVars
    /\ UNCHANGED tab

\* arrayBuffer = await this.app.vault.readBinary(file), the read succeeding.
ReadBinary ==
    /\ pc = "source"
    /\ ~embed.isExternal
    /\ \E bytes \in Buffers : buffer' = bytes
    /\ pc' = "dispatch"
    /\ UNCHANGED <<result, escaped, locVars, notices, progress, settings,
                   pdfVars, provVars, writes>>
    /\ UNCHANGED folderVars
    /\ UNCHANGED prepVars
    /\ UNCHANGED tab

\* await this.app.vault.readBinary(file) rejecting: the await stands in no
\* try block, so the rejection leaves the editorCallback.
ReadBinaryRejects ==
    /\ pc = "source"
    /\ ~embed.isExternal
    /\ escaped' = TRUE
    /\ pc' = "done"
    /\ result' = "read-rejected"
    /\ UNCHANGED <<locVars, notices, progress, settings, buffer, pdfVars,
                   provVars, writes>>
    /\ UNCHANGED folderVars
    /\ UNCHANGED prepVars
    /\ UNCHANGED tab

\* if (isPdfFile(link) || isPdfBuffer(arrayBuffer))
TreatAsPdf(link, buf) == isPdfFile(link) \/ isPdfBuffer(buf)

\* The PDF branch: await this.processPdfFile(arrayBuffer, link, editor, ctx),
\* which creates its Notice and calls convertPdfToImages(arrayBuffer,
\* this.settings.pdfScale ?? 2.0, this.settings.pdfMaxPages ?? 50), where
\* pdfjsLib.getDocument is handed the buffer.
DispatchPdf ==
    /\ pc = "dispatch"
    /\ TreatAsPdf(embed.link, buffer)
    /\ progress' = "shown"
    /\ maxPages' = settings.pdfMaxPages
    /\ parsed' = TRUE
    /\ pc' = "pdf_load"
    /\ UNCHANGED <<result, escaped, locVars, notices, settings, buffer,
                   loadFailure, totalPages, pageNum, outcomes, images,
                   provVars, writes>>
    /\ UNCHANGED folderVars
    /\ UNCHANGED prepVars
    /\ UNCHANGED tab

\* The image branch: base64, dimensions, this.getProvider(), new Notice(..).
\* getProvider gave no instance for an image embed. Its throw is outside
\* the try and leaves the command; a returned value that is no provider
\* reaches provider.extractTextFromBase64(base64) inside the try, unless
\* getProviderType(providerId) throws on the identifier first.
DispatchImageNoProvider ==
    /\ pc = "dispatch"
    /\ ~TreatAsPdf(embed.link, buffer)
    /\ Provider.kind # "instance"
    /\ \E typeThrows \in BOOLEAN :
           IF Provider.kind = "threw" \/ typeThrows
           THEN /\ escaped' = TRUE
                /\ UNCHANGED <<progress, notices>>
           ELSE /\ progress' = "hidden"
                /\ notices' = notices \cup {"Failed to extract text."}
                /\ UNCHANGED escaped
    /\ result' = NoProviderResult
    /\ pc' = "done"
    /\ UNCHANGED <<locVars, settings, buffer, pdfVars, providerBuilt,
                   providerCalls, allText, writes>>
    /\ UNCHANGED folderVars
    /\ UNCHANGED prepVars
    /\ UNCHANGED tab

\* getProvider gave an instance: the Notice is shown and the try calls
\* provider.extractTextFromBase64(base64); the command awaits its answer.
DispatchImage ==
    /\ pc = "dispatch"
    /\ ~TreatAsPdf(embed.link, buffer)
    /\ Provider.kind = "instance"
    /\ providerBuilt' = TRUE
    /\ progress' = "shown"
    /\ providerCalls' = Append(providerCalls, arrayBufferToBase64(buffer))
    /\ pc' = "img_extract"
    /\ UNCHANGED <<result, escaped, locVars, notices, settings, buffer,
                   pdfVars, allText, writes>>
    /\ UNCHANGED folderVars
    /\ UNCHANGED prepVars
    /\ UNCHANGED tab

\* ------------------------------------------------------------------------
\* src/main.ts: extract-text-from-embedded-image, the image branch
\* ------------------------------------------------------------------------

\* const embedMatch = sel.match(/!\[\[.*?\]\]/) || sel.match(/!\[.*?\]\(.*?\)/)
\* Only the second pattern tried.
EmbedMatchMarkdownOnly(sel) == MatchMarkdown(sel, 0)

EmbedMatch(sel) ==
    IF MatchWiki(sel, 0).found THEN MatchWiki(sel, 0) ELSE MatchMarkdown(sel, 0)

\* The selection holds an embed somewhere.
EmbedIsInSelection(sel) == EmbedMatch(sel).found

\* if (embedMatch && sel === embedMatch[0])
EmbedIsSelected(sel) == EmbedMatch(sel).found /\ sel = EmbedMatch(sel).text

\* const content = await provider.extractTextFromBase64(base64) returning
\* text: notice.hide(); a selected embed is replaced directly, else the
\* content goes to handleExtractedContent.
ImageExtracted ==
    /\ pc = "img_extract"
    /\ UNCHANGED providerCalls
    /\ progress' = "hidden"
    /\ IF EmbedIsSelected(editor.sel)
       THEN /\ writes' = Append(writes,
                 [op |-> "replaceSelection",
                  content |-> OcrText(arrayBufferToBase64(buffer))])
            /\ pc' = "done"
            /\ result' = "replaced"
       ELSE /\ pc' = "img_handle"
            /\ UNCHANGED <<writes, result>>
    /\ UNCHANGED <<escaped, locVars, notices, settings, buffer, pdfVars,
                   providerBuilt, allText>>
    /\ UNCHANGED folderVars
    /\ UNCHANGED prepVars
    /\ UNCHANGED tab

\* The provider returning null or "":
\* notice.hide(); pluginLog("No content returned.", "notice", true); return;
ImageNoContent ==
    /\ pc = "img_extract"
    /\ UNCHANGED providerCalls
    /\ progress' = "hidden"
    /\ notices' = notices \cup {"No content returned."}
    /\ pc' = "done"
    /\ result' = "no-content"
    /\ UNCHANGED <<escaped, locVars, settings, buffer, pdfVars,
                   providerBuilt, allText, writes>>
    /\ UNCHANGED folderVars
    /\ UNCHANGED prepVars
    /\ UNCHANGED tab

\* The provider call rejecting: catch (e) { notice.hide(); ...
\* pluginLog("Failed to extract text.", "notice", true); }
ImageProviderFails ==
    /\ pc = "img_extract"
    /\ UNCHANGED providerCalls
    /\ progress' = "hidden"
    /\ notices' = notices \cup {"Failed to extract text."}
    /\ pc' = "done"
    /\ result' = "provider-failed"
    /\ UNCHANGED <<escaped, locVars, settings, buffer, pdfVars,
                   providerBuilt, allText, writes>>
    /\ UNCHANGED folderVars
    /\ UNCHANGED prepVars
    /\ UNCHANGED tab

\* await handleExtractedContent(this, content, editor ?? null, context)
ImageHandled ==
    /\ pc = "img_handle"
    /\ writes' = Append(writes,
          [op |-> "handleExtractedContent",
           content |-> OcrText(arrayBufferToBase64(buffer)),
           embed |-> parseEmbedInfo(embed.embedText, embed.link)])
    /\ pc' = "done"
    /\ result' = "handled"
    /\ UNCHANGED <<escaped, locVars, notices, progress, settings, buffer,
                   pdfVars, provVars>>
    /\ UNCHANGED folderVars
    /\ UNCHANGED prepVars
    /\ UNCHANGED tab

\* handleExtractedContent rejecting, inside the try block.
ImageHandleFails ==
    /\ pc = "img_handle"
    /\ notices' = notices \cup {"Failed to extract text."}
    /\ pc' = "done"
    /\ result' = "handle-failed"
    /\ UNCHANGED <<escaped, locVars, progress, settings, buffer, pdfVars,
                   provVars, writes>>
    /\ UNCHANGED folderVars
    /\ UNCHANGED prepVars
    /\ UNCHANGED tab

\* ------------------------------------------------------------------------
\* src/utils/pdf.ts: convertPdfToImages, as processPdfFile awaits it
\* ------------------------------------------------------------------------

\* pdf = await pdfjsLib.getDocument({ data: buffer }).promise, resolving.
PdfLoaded ==
    /\ pc = "pdf_load"
    /\ \E n \in 1..MaxTotalPages : totalPages' = n
    /\ pageNum' = 1
    /\ pc' = "pdf_pages"
    /\ UNCHANGED <<result, escaped, locVars, notices, progress, settings,
                   buffer, parsed, loadFailure, maxPages, outcomes, images,
                   provVars, writes>>
    /\ UNCHANGED folderVars
    /\ UNCHANGED prepVars
    /\ UNCHANGED tab

\* The notice processPdfFile shows for what convertPdfToImages threw.
PdfErrorNotice(errorClass) ==
    IF errorClass = "PDFEncryptedError"
    THEN "Cannot process password-protected PDF."
    ELSE "PDF appears to be corrupted or invalid."

\* getDocument rejecting: convertPdfToImages throws PDFEncryptedError or
\* PDFCorruptedError, and processPdfFile's catch hides the notice and shows
\* the message of that class.
PdfLoadFails ==
    /\ pc = "pdf_load"
    /\ \E err \in LoadFailures :
          /\ loadFailure' = err
          /\ result' = ClassifyLoadFailure(err)
          /\ notices' = notices \cup {PdfErrorNotice(ClassifyLoadFailure(err))}
    /\ progress' = "hidden"
    /\ pc' = "done"
    /\ UNCHANGED <<escaped, locVars, settings, buffer, parsed, totalPages,
                   maxPages, pageNum, outcomes, images, provVars, writes>>
    /\ UNCHANGED folderVars
    /\ UNCHANGED prepVars
    /\ UNCHANGED tab

\* One turn of for (pageNum = 1; pageNum <= pagesToProcess; pageNum++), up
\* to its second await: pdf.getPage(pageNum) resolved, the canvas gave its
\* context, and the turn is suspended in await page.render(..).promise.
PdfPageLoaded ==
    /\ pc = "pdf_pages"
    /\ pageNum <= PagesToProcess(totalPages, maxPages)
    /\ pc' = "pdf_render"
    /\ UNCHANGED <<result, escaped, locVars, notices, progress, settings,
                   buffer, pdfVars, provVars, writes>>
    /\ UNCHANGED folderVars
    /\ UNCHANGED prepVars
    /\ UNCHANGED tab

\* The rest of the turn: page.render(..).promise resolved, the canvas is
\* converted and the page image pushed.
PdfPageRendered ==
    /\ pc = "pdf_render"
    /\ images' = Append(images, PageImage(pageNum))
    /\ outcomes' = Append(outcomes, "ok")
    /\ pageNum' = pageNum + 1
    /\ pc' = "pdf_pages"
    /\ UNCHANGED <<result, escaped, locVars, notices, progress, settings,
                   buffer, parsed, loadFailure, totalPages, maxPages,
                   provVars, writes>>
    /\ UNCHANGED folderVars
    /\ UNCHANGED prepVars
    /\ UNCHANGED tab

\* pdf.getPage(pageNum) resolved and canvas.getContext("2d") returned null:
\* a warning, and "continue", with no await in between.
PdfPageNoContext ==
    /\ pc = "pdf_pages"
    /\ pageNum <= PagesToProcess(totalPages, maxPages)
    /\ outcomes' = Append(outcomes, "noctx")
    /\ pageNum' = PageAfterFailure(pageNum,
                                   PagesToProcess(totalPages, maxPages))
    /\ UNCHANGED <<pc, result, escaped, locVars, notices, progress, settings,
                   buffer, parsed, loadFailure, totalPages, maxPages, images,
                   provVars, writes>>
    /\ UNCHANGED folderVars
    /\ UNCHANGED prepVars
    /\ UNCHANGED tab

\* A throw caught per page, a warning: pdf.getPage(pageNum) rejected, at the
\* first await of the turn, or page.render(..).promise rejected or
\* toDataURL threw, at its second.
PdfPageThrows ==
    /\ \/ pc = "pdf_pages" /\ pageNum <= PagesToProcess(totalPages, maxPages)
       \/ pc = "pdf_render"
    /\ outcomes' = Append(outcomes, "threw")
    /\ pageNum' = PageAfterFailure(pageNum,
                                   PagesToProcess(totalPages, maxPages))
    /\ pc' = "pdf_pages"
    /\ UNCHANGED <<result, escaped, locVars, notices, progress, settings,
                   buffer, parsed, loadFailure, totalPages, maxPages, images,
                   provVars, writes>>
    /\ UNCHANGED folderVars
    /\ UNCHANGED prepVars
    /\ UNCHANGED tab

\* ------------------------------------------------------------------------
\* src/main.ts: processPdfFile, after convertPdfToImages returned
\* ------------------------------------------------------------------------

\* return images, and in processPdfFile: no page image at all ends the
\* command with a notice; else this.getProvider() and the page loop starts.
\* getProvider gave no instance for the rendered pages: everything from
\* the getProvider call on is inside the try of processPdfFile.
PdfNoProvider ==
    /\ pc = "pdf_pages"
    /\ pageNum > PagesToProcess(totalPages, maxPages)
    /\ Len(images) # 0
    /\ Provider.kind # "instance"
    /\ progress' = "hidden"
    /\ notices' = notices \cup {"Failed to process PDF."}
    /\ result' = NoProviderResult
    /\ pc' = "done"
    /\ UNCHANGED <<escaped, locVars, settings, buffer, pdfVars,
                   providerBuilt, providerCalls, allText, writes>>
    /\ UNCHANGED folderVars
    /\ UNCHANGED prepVars
    /\ UNCHANGED tab

PdfConverted ==
    /\ pc = "pdf_pages"
    /\ pageNum > PagesToProcess(totalPages, maxPages)
    /\ Len(images) = 0 \/ Provider.kind = "instance"
    /\ IF Len(images) = 0
       THEN /\ progress' = "hidden"
            /\ notices' = notices
                  \cup {"Could not extract any pages from PDF."}
            /\ pc' = "done"
            /\ result' = "pdf-no-pages"
            /\ UNCHANGED <<providerBuilt, providerCalls>>
       ELSE /\ providerBuilt' = TRUE
            /\ providerCalls' = Append(providerCalls, images[1].base64)
            /\ pc' = "pdf_extract"
            /\ UNCHANGED <<progress, notices, result>>
    /\ UNCHANGED <<escaped, locVars, settings, buffer, pdfVars, allText,
                   writes>>
    /\ UNCHANGED folderVars
    /\ UNCHANGED prepVars
    /\ UNCHANGED tab

\* The texts kept after the answer to a page: if (text) allText.push(text)
PushText(texts, text) == IF text # <<>> THEN Append(texts, text) ELSE texts

\* const text = await provider.extractTextFromBase64(page.base64) answered
\* for a page that is not the last: the text is kept and the loop goes
\* round, calling the provider with the next page before it suspends.
\* The page awaited is the last one called, Len(providerCalls).
PdfPageText ==
    /\ pc = "pdf_extract"
    /\ Len(providerCalls) < Len(images)
    /\ \E text \in {OcrText(images[Len(providerCalls)].base64), <<>>} :
          allText' = PushText(allText, text)
    /\ providerCalls' =
          Append(providerCalls, images[Len(providerCalls) + 1].base64)
    /\ UNCHANGED <<pc, result, escaped, locVars, notices, progress, settings,
                   buffer, pdfVars, providerBuilt, writes>>
    /\ UNCHANGED folderVars
    /\ UNCHANGED prepVars
    /\ UNCHANGED tab

\* The provider call of the awaited page rejecting: processPdfFile's catch.
PdfProviderFails ==
    /\ pc = "pdf_extract"
    /\ progress' = "hidden"
    /\ notices' = notices \cup {"Failed to process PDF."}
    /\ pc' = "done"
    /\ result' = "pdf-provider-failed"
    /\ UNCHANGED <<escaped, locVars, settings, buffer, pdfVars, provVars,
                   writes>>
    /\ UNCHANGED folderVars
    /\ UNCHANGED prepVars
    /\ UNCHANGED tab

PageSeparator == <<"\n\n---\n\n">>

\* The texts put end to end, nothing between them.
RECURSIVE JoinPagesPlain(_)
JoinPagesPlain(texts) ==
    IF Len(texts) = 0 THEN <<>>
    ELSE texts[1] \o JoinPagesPlain(Tail(texts))

\* allText.join("\n\n---\n\n")
RECURSIVE JoinPages(_)
JoinPages(texts) ==
    IF Len(texts) = 0 THEN <<>>
    ELSE IF Len(texts) = 1 THEN texts[1]
    ELSE texts[1] \o PageSeparator \o JoinPages(Tail(texts))

\* allText.length > 1 ? allText.join("\n\n---\n\n") : allText[0]
CombinedText(texts) == IF Len(texts) > 1 THEN JoinPages(texts) ELSE texts[1]

\* The answer for the last page: the text is kept, the loop ends and the
\* same continuation goes on: notice.hide(); no text at all ends the command
\* with a notice; else the combined text goes to handleExtractedContent.
PdfCombined ==
    /\ pc = "pdf_extract"
    /\ Len(providerCalls) = Len(images)
    /\ \E text \in {OcrText(images[Len(providerCalls)].base64), <<>>} :
          /\ allText' = PushText(allText, text)
          /\ IF Len(PushText(allText, text)) = 0
             THEN /\ notices' = notices
                        \cup {"No text could be extracted from PDF."}
                  /\ pc' = "done"
                  /\ result' = "pdf-no-text"
             ELSE /\ pc' = "pdf_handle"
                  /\ UNCHANGED <<notices, result>>
    /\ progress' = "hidden"
    /\ UNCHANGED <<escaped, locVars, settings, buffer, pdfVars,
                   providerBuilt, providerCalls, writes>>
    /\ UNCHANGED folderVars
    /\ UNCHANGED prepVars
    /\ UNCHANGED tab

\* await handleExtractedContent(this, combinedText, editor ?? null, context)
PdfHandled ==
    /\ pc = "pdf_handle"
    /\ writes' = Append(writes,
          [op |-> "handleExtractedContent", content |-> CombinedText(allText)])
    /\ pc' = "done"
    /\ result' = "pdf-handled"
    /\ UNCHANGED <<escaped, locVars, notices, progress, settings, buffer,
                   pdfVars, provVars>>
    /\ UNCHANGED folderVars
    /\ UNCHANGED prepVars
    /\ UNCHANGED tab

\* handleExtractedContent rejecting: processPdfFile's catch.
PdfHandleFails ==
    /\ pc = "pdf_handle"
    /\ notices' = notices \cup {"Failed to process PDF."}
    /\ pc' = "done"
    /\ result' = "pdf-handle-failed"
    /\ UNCHANGED <<escaped, locVars, progress, settings, buffer, pdfVars,
                   provVars, writes>>
    /\ UNCHANGED folderVars
    /\ UNCHANGED prepVars
    /\ UNCHANGED tab

\* ------------------------------------------------------------------------
\* The embedded-image command as a whole
\* ------------------------------------------------------------------------

Init ==
    /\ InitCommon
    /\ pc = "start"
    /\ editor \in CommandEditors
    /\ settings \in SettingsChoices \cup ProviderSettingsChoices
    /\ files = <<>>
    /\ img = NoImage

Next ==
    \/ FindRelevant
    \/ CacheFallback
    \/ RawFallback
    \/ FetchExternal
    \/ ResolveMissing
    \/ ReadBinary
    \/ ReadBinaryRejects
    \/ DispatchPdf
    \/ DispatchImage
    \/ DispatchImageNoProvider
    \/ ImageExtracted
    \/ ImageNoContent
    \/ ImageProviderFails
    \/ ImageHandled
    \/ ImageHandleFails
    \/ PdfLoaded
    \/ PdfLoadFails
    \/ PdfPageLoaded
    \/ PdfPageRendered
    \/ PdfPageNoContext
    \/ PdfPageThrows
    \/ PdfConverted
    \/ PdfNoProvider
    \/ PdfPageText
    \/ PdfProviderFails
    \/ PdfCombined
    \/ PdfHandled
    \/ PdfHandleFails

Spec == Init /\ [][Next]_vars

\* ------------------------------------------------------------------------
\* src/utils/embed.ts: templateHasImagePlaceholder
\* ------------------------------------------------------------------------

\* The first position >= i of s that holds no whitespace (the end of a \s*).
RECURSIVE SkipSpaces(_, _)
SkipSpaces(s, i) ==
    IF i <= Len(s) /\ IsSpace(s[i]) THEN SkipSpaces(s, i + 1) ELSE i

\* "image."
ImageDot == <<"i", "m", "a", "g", "e", ".">>

\* /\{\{\s*image\.[^}]+\s*\}\}/.test(template): "{{", whitespace, "image.",
\* at least one character other than "}", and then "}}" at the first "}".
templateHasImagePlaceholder(template) ==
    \E i \in 1..Len(template) :
        /\ HasAt(template, i, <<"{", "{">>)
        /\ LET j == SkipSpaces(template, i + 2)
               k == j + Len(ImageDot)
               closing == {m \in k..Len(template) : template[m] = "}"}
           IN  /\ HasAt(template, j, ImageDot)
               /\ closing # {}
               /\ SetMin(closing) > k
               /\ HasAt(template, SetMin(closing), <<"}", "}">>)

\* ------------------------------------------------------------------------
\* src/main.ts: extractTextFromImageFolder, its pure parts
\* ------------------------------------------------------------------------

\* /\.(png|jpe?g|webp|gif|bmp|svg)$/i, the filter of the folder batch.
FolderImageSuffixes ==
    { <<".", "p", "n", "g">>, <<".", "j", "p", "g">>,
      <<".", "j", "p", "e", "g">>, <<".", "w", "e", "b", "p">>,
      <<".", "g", "i", "f">>, <<".", "b", "m", "p">>,
      <<".", "s", "v", "g">> }

IsFolderImage(name) == \E suf \in FolderImageSuffixes : EndsWithCI(name, suf)

\* Array.from(files).filter(file => <the regex>.test(file.name))
RECURSIVE ImageFilesOf(_)
ImageFilesOf(fs) ==
    IF fs = <<>> THEN <<>>
    ELSE IF IsFolderImage(Head(fs).name)
         THEN <<Head(fs)>> \o ImageFilesOf(Tail(fs))
         ELSE ImageFilesOf(Tail(fs))

\* "--- BEGIN IMAGE: ---"
BeginMarker ==
    <<"-", "-", "-", " ", "B", "E", "G", "I", "N", " ", "I", "M", "A", "G",
      "E", ":", " ", "-", "-", "-">>

\* "--- END IMAGE ---"
EndMarker ==
    <<"-", "-", "-", " ", "E", "N", "D", " ", "I", "M", "A", "G", "E", " ",
      "-", "-", "-">>

\* response.matchAll(/--- BEGIN IMAGE: ---\s*([\s\S]*?)\s*--- END IMAGE ---/g)
\* searched from position from, each match mapped to m[1].trim(): the match
\* starts at the leftmost BEGIN marker that has an END marker after it and
\* ends with the nearest such END marker; the search goes on after it.
\* The same pattern with a greedy group: one match, up to the last END.
ParseBlocksGreedy(answer, from) ==
    LET starts ==
            {i \in from..Len(answer) :
                /\ HasAt(answer, i, BeginMarker)
                /\ \E j \in (i + Len(BeginMarker))..Len(answer) :
                       HasAt(answer, j, EndMarker)}
    IN  IF starts = {} THEN <<>>
        ELSE LET i == SetMin(starts)
                 j == SetMax({e \in (i + Len(BeginMarker))..Len(answer) :
                                 HasAt(answer, e, EndMarker)})
             IN  <<Trim(SubSeq(answer, i + Len(BeginMarker), j - 1))>>

RECURSIVE ParseBlocks(_, _)
ParseBlocks(answer, from) ==
    LET starts ==
            {i \in from..Len(answer) :
                /\ HasAt(answer, i, BeginMarker)
                /\ \E j \in (i + Len(BeginMarker))..Len(answer) :
                       HasAt(answer, j, EndMarker)}
    IN  IF starts = {} THEN <<>>
        ELSE LET i == SetMin(starts)
                 j == SetMin({e \in (i + Len(BeginMarker))..Len(answer) :
                                 HasAt(answer, e, EndMarker)})
                 group == SubSeq(answer, i + Len(BeginMarker), j - 1)
             IN  <<Trim(group)>>
                     \o ParseBlocks(answer, j + Len(EndMarker))

\* What cannot be read of an array: contentForFormatting[i] past its end.
Undefined == <<"undefined">>

\* contentForFormatting: the array of blocks when there are two or more,
\* else one string, the only block or the trimmed answer.
ContentForFormatting(blocks, answer) ==
    IF Len(blocks) > 1 THEN [isArray |-> TRUE, value |-> blocks]
    ELSE IF Len(blocks) = 1 THEN [isArray |-> FALSE, value |-> blocks[1]]
    ELSE [isArray |-> FALSE, value |-> Trim(answer)]

\* Every image given the first block.
ImgContentFirst(c, i) == IF c.isArray THEN c.value[1] ELSE c.value

\* Array.isArray(contentForFormatting) ? contentForFormatting[i]
\*                                      : contentForFormatting,
\* i counted from 0.
ImgContent(c, i) ==
    IF c.isArray
    THEN IF i + 1 <= Len(c.value) THEN c.value[i + 1] ELSE Undefined
    ELSE c.value

\* img.name.replace(/\.[^.]*$/, ""): the name without its last extension.
BaseName(name) ==
    LET dot == LastIndexOf(name, ".")
    IN  IF dot = 0 THEN name ELSE SubSeq(name, 1, dot - 1)

\* img.name.includes(".") ? (img.name.split(".").pop() || "") : ""
ExtensionOf(name) ==
    LET dot == LastIndexOf(name, ".")
    IN  IF dot = 0 THEN <<>> ELSE SubSeq(name, dot + 1, Len(name))

\* One entry of the images of the formatting context.
ImageContext(prep) ==
    [name      |-> BaseName(prep.name),
     extension |-> ExtensionOf(prep.name),
     path      |-> prep.name]

\* ------------------------------------------------------------------------
\* The folders picked and the answers of the provider
\* ------------------------------------------------------------------------

MaxFiles == 3

\* "a.png"
NameAPng == <<"a", ".", "p", "n", "g">>

\* "b.JPG"
NameBJpg == <<"b", ".", "J", "P", "G">>

\* "n.md"
NameNote == <<"n", ".", "m", "d">>

\* A File of the picker: its name, its bytes, and the size and type the
\* browser reports for it (the byte length, and the type of its extension,
\* empty when the browser knows none).
File(name, bytes, type) ==
    [name |-> name, bytes |-> bytes, size |-> Len(bytes), type |-> type]

FilePool ==
    { File(NameAPng, BufPng, "image/png"),
      File(NameBJpg, BufShort, "image/jpeg"),
      File(NameNote, BufShort, "") }

Folders == SeqsUpTo(FilePool, MaxFiles) \cup {<<>>}

\* The text of the k-th block of a batch answer.
BlockText(k) == <<"t", ToString(k)>>

RECURSIVE BlocksResponse(_, _)
BlocksResponse(k, n) ==
    IF k > n THEN <<>>
    ELSE BeginMarker \o <<"\n">> \o BlockText(k) \o <<" ", "\n">>
             \o EndMarker \o <<"\n">> \o BlocksResponse(k + 1, n)

\* " raw\n": an answer without delimiters.
RawAnswer == <<" ", "r", "a", "w", "\n">>

\* A block that is never closed.
UnclosedBlock == BeginMarker \o <<"\n", "t", "9">>

\* What provider.process may answer for n images: zero to n + 1 delimited
\* blocks, free text, or blocks the last of which is not closed.
ProcessResponses(n) ==
    {BlocksResponse(1, k) : k \in 0..(n + 1)}
        \cup {RawAnswer}
        \cup {BlocksResponse(1, 1) \o UnclosedBlock}
        \cup {RawAnswer \o BlocksResponse(1, n) \o RawAnswer}

\* What provider.extractTextFromBase64 may resolve to: a text, or null.
NullText == <<"null">>

ExtractResponses(base64) == {OcrText(base64), NullText}

\* ------------------------------------------------------------------------
\* src/main.ts: extractTextFromImageFolder
\* ------------------------------------------------------------------------

\* The PreparedImage the map callback returns for a task that finished.
PreparedImage(task) ==
    [name    |-> task.file.name,
     base64  |-> arrayBufferToBase64(task.file.bytes),
     mime    |-> task.file.type,
     size    |-> task.file.size,
     hasDims |-> task.hasDims,
     source  |-> task.file.name]

\* selectFolder resolved to null: the command returns.
FolderCancelled ==
    /\ pc = "folder_start"
    /\ pc' = "done"
    /\ result' = "cancelled"
    /\ UNCHANGED <<escaped, notices, progress, settings, providerBuilt,
                   writes, embedVars, folderVars>>
    /\ UNCHANGED prepVars
    /\ UNCHANGED tab

\* selectFolder resolved to the files: they are filtered by extension and
\* the map callback is started on every image, up to its first await.
FolderSelected ==
    /\ pc = "folder_start"
    /\ LET imageFiles == ImageFilesOf(files)
       IN  tasks' = [i \in 1..Len(imageFiles) |->
                        [file |-> imageFiles[i], state |-> "reading",
                         hasDims |-> FALSE]]
    /\ pc' = "preparing"
    /\ UNCHANGED <<result, escaped, notices, progress, settings,
                   providerBuilt, writes, embedVars, files, prepared,
                   hasProcess, batchCalls, response, matches, contentForFormatting,
                   perImage, noteIdx>>
    /\ UNCHANGED prepVars
    /\ UNCHANGED tab

\* file.arrayBuffer() of image i resolved.
TaskRead(i) ==
    /\ tasks[i].state = "reading"
    /\ tasks' = [tasks EXCEPT ![i].state = "probing"]
    /\ UNCHANGED <<pc, result, escaped, notices, progress, settings,
                   providerBuilt, writes, embedVars, files, prepared,
                   hasProcess, batchCalls, response, matches, contentForFormatting,
                   perImage, noteIdx>>
    /\ UNCHANGED prepVars
    /\ UNCHANGED tab

\* file.arrayBuffer() of image i rejected: the callback's promise rejects,
\* and with it Promise.all and the await of line 392, which no try
\* encloses.  The other callbacks go on, their results unused.
TaskReadRejects(i) ==
    /\ tasks[i].state = "reading"
    /\ tasks' = [tasks EXCEPT ![i].state = "rejected"]
    /\ IF pc = "preparing"
       THEN /\ pc' = "done"
            /\ result' = "prepare-rejected"
            /\ escaped' = TRUE
       ELSE UNCHANGED <<pc, result, escaped>>
    /\ UNCHANGED <<notices, progress, settings, providerBuilt, writes,
                   embedVars, files, prepared, hasProcess, batchCalls,
                   response, matches, contentForFormatting,
                   perImage, noteIdx>>
    /\ UNCHANGED prepVars
    /\ UNCHANGED tab

\* getImageDimensionsFromArrayBuffer of image i resolved, to the dimensions
\* or to null; it never rejects.
TaskProbed(i) ==
    /\ tasks[i].state = "probing"
    /\ \E dims \in BOOLEAN :
           tasks' = [tasks EXCEPT ![i].state = "done", ![i].hasDims = dims]
    /\ UNCHANGED <<pc, result, escaped, notices, progress, settings,
                   providerBuilt, writes, embedVars, files, prepared,
                   hasProcess, batchCalls, response, matches, contentForFormatting,
                   perImage, noteIdx>>
    /\ UNCHANGED prepVars
    /\ UNCHANGED tab

\* Promise.all resolved to no image at all.
FolderNoImages ==
    /\ pc = "preparing"
    /\ tasks = <<>>
    /\ notices' = notices \cup {"No valid images could be prepared."}
    /\ pc' = "done"
    /\ result' = "no-images"
    /\ UNCHANGED <<escaped, progress, settings, providerBuilt, writes,
                   embedVars, folderVars>>
    /\ UNCHANGED prepVars
    /\ UNCHANGED tab

\* Promise.all resolved: the provider is built, the progress notice shown
\* and the provider called, with every image if it implements process and
\* with the first image alone if it does not.
\* The fallback sends every prepared image.
BatchCallAllImages(capable, prep) ==
    [method |-> IF capable THEN "process" ELSE "extractTextFromBase64",
     images |-> [i \in 1..Len(prep) |-> prep[i].base64],
     prompt |-> IF capable THEN "batchPrompt" ELSE "none"]

\* if (provider.process) provider.process(prepared, batchPrompt)
\* else provider.extractTextFromBase64(prepared[0].base64)
BatchCall(capable, prep) ==
    IF capable
    THEN [method |-> "process",
          images |-> [i \in 1..Len(prep) |-> prep[i].base64],
          prompt |-> "batchPrompt"]
    ELSE [method |-> "extractTextFromBase64",
          images |-> <<prep[1].base64>>,
          prompt |-> "none"]

\* getProvider gave no instance for the prepared images. Its throw is
\* outside the try and leaves the command; a returned value that is no
\* provider has no process and no extractTextFromBase64, so the fallback
\* call throws inside the try, unless getProviderType(providerId) throws on
\* the identifier first.
FolderNoProvider ==
    /\ pc = "preparing"
    /\ tasks # <<>>
    /\ \A i \in 1..Len(tasks) : tasks[i].state = "done"
    /\ Provider.kind # "instance"
    /\ prepared' = [i \in 1..Len(tasks) |-> PreparedImage(tasks[i])]
    /\ \E typeThrows \in BOOLEAN :
           IF Provider.kind = "threw" \/ typeThrows
           THEN /\ escaped' = TRUE
                /\ UNCHANGED <<progress, notices>>
           ELSE /\ progress' = "hidden"
                /\ notices' = notices
                      \cup {"Failed to extract text from images."}
                /\ UNCHANGED escaped
    /\ result' = NoProviderResult
    /\ pc' = "done"
    /\ UNCHANGED <<settings, writes, embedVars, providerBuilt, files,
                   tasks, hasProcess, batchCalls, response, matches,
                   contentForFormatting, perImage, noteIdx>>
    /\ UNCHANGED prepVars
    /\ UNCHANGED tab

FolderPrepared ==
    /\ pc = "preparing"
    /\ tasks # <<>>
    /\ \A i \in 1..Len(tasks) : tasks[i].state = "done"
    /\ Provider.kind = "instance"
    /\ prepared' = [i \in 1..Len(tasks) |-> PreparedImage(tasks[i])]
    /\ providerBuilt' = TRUE
    /\ progress' = "shown"
    /\ \E capable \in BOOLEAN :
           /\ hasProcess' = capable
           /\ batchCalls' = Append(batchCalls, BatchCall(capable, prepared'))
    /\ pc' = "batch_call"
    /\ UNCHANGED <<result, escaped, notices, settings, writes, embedVars,
                   files, tasks, response, matches, contentForFormatting,
                   perImage, noteIdx>>
    /\ UNCHANGED prepVars
    /\ UNCHANGED tab

\* this.settings.batchNoteNameTemplate || this.settings.noteNameTemplate
NoteNameTemplate(s) ==
    IF s.batchNoteNameTemplate # <<>> THEN s.batchNoteNameTemplate
    ELSE s.noteNameTemplate

\* this.settings.batchNoteFolderPath || this.settings.noteFolderPath
NoteFolderTemplate(s) ==
    IF s.batchNoteFolderPath # <<>> THEN s.batchNoteFolderPath
    ELSE s.noteFolderPath

\* Only the note-name template decides.
PerImageNotesNameOnly(blocks, s) ==
    /\ Len(blocks) > 1
    /\ templateHasImagePlaceholder(NoteNameTemplate(s))

\* Array.isArray(contextForFormatting.images) && (a template names the image)
PerImageNotes(blocks, s) ==
    /\ Len(blocks) > 1
    /\ \/ templateHasImagePlaceholder(NoteNameTemplate(s))
       \/ templateHasImagePlaceholder(NoteFolderTemplate(s))

\* The provider answered: the notice is hidden, the answer parsed and the
\* kind of output chosen.
BatchResponded ==
    /\ pc = "batch_call"
    /\ \E answer \in
           IF hasProcess THEN ProcessResponses(Len(prepared))
           ELSE {IF r = NullText THEN <<>> ELSE r :
                    r \in ExtractResponses(prepared[1].base64)} :
           LET blocks == ParseBlocks(answer, 1)
           IN  /\ response' = answer
               /\ matches' = blocks
               /\ contentForFormatting' = ContentForFormatting(blocks, answer)
               /\ perImage' = PerImageNotes(blocks, settings)
    /\ progress' = "hidden"
    /\ noteIdx' = 0
    /\ pc' = "batch_notes"
    /\ UNCHANGED <<result, escaped, notices, settings, providerBuilt, writes,
                   embedVars, files, tasks, prepared, hasProcess,
                   batchCalls>>
    /\ UNCHANGED prepVars
    /\ UNCHANGED tab

\* The catch of the batch hides the progress notice and shows nothing.
BatchCaughtSilently ==
    /\ progress' = "hidden"
    /\ notices' = notices
    /\ pc' = "done"
    /\ result' = "batch-failed"

\* The catch of line 528.
BatchCaught ==
    /\ progress' = "hidden"
    /\ notices' = notices \cup {"Failed to extract text from images."}
    /\ pc' = "done"
    /\ result' = "batch-failed"

\* The provider rejected.
BatchProviderFails ==
    /\ pc = "batch_call"
    /\ BatchCaught
    /\ UNCHANGED <<escaped, settings, providerBuilt, writes, embedVars,
                   folderVars>>
    /\ UNCHANGED prepVars
    /\ UNCHANGED tab

\* contextForFormatting.images: with two or more blocks the context is built
\* with images, one entry per prepared image; else with singleImage, and
\* it has no images.
ContextImages(cff, preps) ==
    IF cff.isArray THEN [i \in 1..Len(preps) |-> ImageContext(preps[i])]
    ELSE <<>>

\* The image of a context that was built with images and not spread with
\* an image: it has none.
NoSingleImage ==
    [name |-> Undefined, extension |-> Undefined, path |-> Undefined]

\* The image of contextForFormatting: the singleImage of prepared[0] when
\* the context was built with at most one block, else none.
ContextImage(cff, preps) ==
    IF cff.isArray THEN NoSingleImage ELSE ImageContext(preps[1])

\* One turn of the per-image loop: handleExtractedContent wrote the note of
\* image noteIdx + 1, its context the batch context with image, imageIndex
\* and imageTotal added.
NoteWritten ==
    /\ pc = "batch_notes"
    /\ perImage
    /\ noteIdx < Len(prepared)
    /\ writes' = Append(writes,
          [op |-> "handleExtractedContent",
           content |-> ImgContent(contentForFormatting, noteIdx),
           images |-> ContextImages(contentForFormatting, prepared),
           image |-> ContextImages(contentForFormatting,
                                   prepared)[noteIdx + 1],
           imageIndex |-> noteIdx + 1,
           imageTotal |-> Len(prepared)])
    /\ noteIdx' = noteIdx + 1
    /\ IF noteIdx + 1 = Len(prepared)
       THEN pc' = "done" /\ result' = "batch-handled"
       ELSE UNCHANGED <<pc, result>>
    /\ UNCHANGED <<escaped, notices, progress, settings, providerBuilt,
                   embedVars, files, tasks, prepared, hasProcess, batchCalls,
                   response, matches, contentForFormatting,
                   perImage>>
    /\ UNCHANGED prepVars
    /\ UNCHANGED tab

\* handleExtractedContent of image noteIdx + 1 threw: the loop ends in the
\* catch, the notes written before stay.
NoteFails ==
    /\ pc = "batch_notes"
    /\ perImage
    /\ noteIdx < Len(prepared)
    /\ BatchCaught
    /\ UNCHANGED <<escaped, settings, providerBuilt, writes, embedVars,
                   folderVars>>
    /\ UNCHANGED prepVars
    /\ UNCHANGED tab

\* The single batch note was written: handleExtractedContent got
\* contentForFormatting and contextForFormatting as they are.
SingleNoteWritten ==
    /\ pc = "batch_notes"
    /\ ~perImage
    /\ writes' = Append(writes,
          [op |-> "handleExtractedContent",
           content |-> contentForFormatting.value,
           images |-> ContextImages(contentForFormatting, prepared),
           image |-> ContextImage(contentForFormatting, prepared),
           imageIndex |-> 0,
           imageTotal |-> 0])
    /\ pc' = "done"
    /\ result' = "batch-handled"
    /\ UNCHANGED <<escaped, notices, progress, settings, providerBuilt,
                   embedVars, folderVars>>
    /\ UNCHANGED prepVars
    /\ UNCHANGED tab

SingleNoteFails ==
    /\ pc = "batch_notes"
    /\ ~perImage
    /\ BatchCaught
    /\ UNCHANGED <<escaped, settings, providerBuilt, writes, embedVars,
                   folderVars>>
    /\ UNCHANGED prepVars
    /\ UNCHANGED tab

\* The editor of a command that reads no editor.
NoEditor == [lines |-> <<<<>>>>, cursor |-> 0, sel |-> <<>>]

InitFolder ==
    /\ InitCommon
    /\ pc = "folder_start"
    /\ editor = NoEditor
    /\ settings \in FolderSettingsChoices \cup ProviderSettingsChoices
    /\ files \in Folders
    /\ img = NoImage

NextFolder ==
    \/ FolderCancelled
    \/ FolderSelected
    \/ \E i \in 1..Len(tasks) : TaskRead(i)
    \/ \E i \in 1..Len(tasks) : TaskReadRejects(i)
    \/ \E i \in 1..Len(tasks) : TaskProbed(i)
    \/ FolderNoImages
    \/ FolderPrepared
    \/ FolderNoProvider
    \/ BatchResponded
    \/ BatchProviderFails
    \/ NoteWritten
    \/ NoteFails
    \/ SingleNoteWritten
    \/ SingleNoteFails

SpecFolder == InitFolder /\ [][NextFolder]_vars

\* ------------------------------------------------------------------------
\* src/settings-tab.ts: the settings tab, open while a command runs
\* ------------------------------------------------------------------------

\* The providers the dropdown of the settings tab is set to.
DropdownIds == {"openai", "ollama", "lmstudio", "custom"}

\* The fields of the settings that differ from DEFAULT_SETTINGS.
EditedFields(s) == {f \in DOMAIN s : s[f] # DefaultSettings[f]}

\* The most fields besides the provider the settings tab has edited away
\* from their defaults at any time.
MaxEdits == 1

\* The fields that hold the model name of a provider.
ModelFields == {"ollamaModel", "lmstudioModel", "customApiModel"}

\* The settings s are within what the tab is taken to edit: at most MaxEdits
\* fields besides the provider, and only model names while the provider is
\* one that has a model-name field.
WithinEdits(s) ==
    LET edited == EditedFields(s) \ {"provider"}
    IN  /\ Cardinality(edited) <= MaxEdits
        /\ s.provider \in {"ollama", "lmstudio", "custom"}
              => edited \subseteq ModelFields

\* display(): the tab is emptied and rendered anew from the settings of this
\* moment; of the model-name fields it builds the one of the provider the
\* settings name now.
display == [open |-> TRUE, rendered |-> settings.provider, saving |-> FALSE]

\* The user opens the settings tab: Obsidian calls display(). Whatever
\* command runs stays where it is.
TabOpened ==
    /\ ~tab.open
    /\ tab' = display
    /\ UNCHANGED <<pc, result, escaped, notices, progress, settings,
                   providerBuilt, writes, embedVars, folderVars>>
    /\ UNCHANGED prepVars

\* An onChange handler of the open settings tab runs, at any time, also
\* while a command is suspended in an await: the settings become s, for the
\* handler assigns its field of plugin.settings, the object the commands
\* read their settings from, in place. The await of saveSettings() that
\* follows the assignment changes nothing here.
SettingsChanged(s) ==
    /\ tab.open
    /\ s # settings
    /\ WithinEdits(s)
    /\ settings' = s
    /\ UNCHANGED <<pc, result, escaped, notices, progress, providerBuilt,
                   writes, embedVars, folderVars>>
    /\ UNCHANGED prepVars

\* Provider, up to its await: this.plugin.settings.provider = value, then
\* the handler is suspended in await this.plugin.saveSettings(). The tab
\* still shows what display() rendered last.
ProviderChanged ==
    /\ \E value \in DropdownIds :
          SettingsChanged([settings EXCEPT !.provider = value])
    /\ tab' = [tab EXCEPT !.saving = TRUE]

\* Provider, after its await: saveSettings() resolved and this.display()
\* renders the tab from the settings of this moment. Handlers whose saves
\* are pending together each end in display(); what the last of them
\* renders is what this one step renders. A save that rejects, or never
\* settles, is the run in which this step is not taken.
ProviderDisplayed ==
    /\ tab.saving
    /\ tab' = display
    /\ UNCHANGED <<pc, result, escaped, notices, progress, settings,
                   providerBuilt, writes, embedVars, folderVars>>
    /\ UNCHANGED prepVars

\* The model name typed: "" for a field that was cleared.
ModelInputs == { <<>> }

\* Ollama, Model name, a field of the tab when display() last rendered it
\* for the provider ollama: this.plugin.settings.ollamaModel = value
OllamaModelChanged ==
    /\ tab.rendered = "ollama"
    /\ \E value \in ModelInputs :
          SettingsChanged([settings EXCEPT !.ollamaModel = value])
    /\ UNCHANGED tab

\* LMStudio, Model name, a field of the tab when display() last rendered it
\* for the provider lmstudio: this.plugin.settings.lmstudioModel = value
LmstudioModelChanged ==
    /\ tab.rendered = "lmstudio"
    /\ \E value \in ModelInputs :
          SettingsChanged([settings EXCEPT !.lmstudioModel = value])
    /\ UNCHANGED tab

\* Custom provider, Model name, a field of the tab when display() last
\* rendered it for the provider custom:
\* this.plugin.settings.customApiModel = value.trim()
CustomApiModelChanged ==
    /\ tab.rendered = "custom"
    /\ \E value \in {<<" ", "m", "y", "-", "m", "o", "d", "e", "l">>} :
          SettingsChanged([settings EXCEPT !.customApiModel = Trim(value)])
    /\ UNCHANGED tab

\* The folder path typed: "{{ image.extension }}/x" between spaces.
FolderPathInputs == { <<" ">> \o TplImageFolder \o <<" ">> }

\* Note folder path: this.plugin.settings.noteFolderPath = value.trim()
NoteFolderPathChanged ==
    /\ \E value \in FolderPathInputs :
          SettingsChanged([settings EXCEPT !.noteFolderPath = Trim(value)])
    /\ UNCHANGED tab

\* Note name template: this.plugin.settings.noteNameTemplate = value
NoteNameTemplateChanged ==
    /\ \E value \in {TplImageName} :
          SettingsChanged([settings EXCEPT !.noteNameTemplate = value])
    /\ UNCHANGED tab

\* Batch note folder path:
\* this.plugin.settings.batchNoteFolderPath = value.trim()
BatchNoteFolderPathChanged ==
    /\ \E value \in FolderPathInputs :
          SettingsChanged([settings EXCEPT !.batchNoteFolderPath = Trim(value)])
    /\ UNCHANGED tab

\* Batch note name template:
\* this.plugin.settings.batchNoteNameTemplate = value
BatchNoteNameTemplateChanged ==
    /\ \E value \in {TplImageName, <<>>} :
          SettingsChanged([settings EXCEPT !.batchNoteNameTemplate = value])
    /\ UNCHANGED tab

Digits == {"0", "1", "2", "3", "4", "5", "6", "7", "8", "9"}

DigitValue(c) == CHOOSE d \in 0..9 : ToString(d) = c

\* The number the digits of s stand for in base 10, 0 for none.
RECURSIVE DigitsValue(_)
DigitsValue(s) ==
    IF s = <<>> THEN 0
    ELSE 10 * DigitsValue(SubSeq(s, 1, Len(s) - 1)) + DigitValue(s[Len(s)])

NaN == [nan |-> TRUE, value |-> 0]

\* parseInt(s, 10): leading white space is skipped, a sign taken, then the
\* longest run of digits; NaN when there is no digit there.
parseInt(s) ==
    LET P == {i \in 1..Len(s) : ~IsSpace(s[i])}
        t == IF P = {} THEN <<>> ELSE SubSeq(s, SetMin(P), Len(s))
        signed == t # <<>> /\ t[1] \in {"+", "-"}
        u == IF signed THEN Tail(t) ELSE t
        stops == {i \in 1..Len(u) : u[i] \notin Digits}
        n == IF stops = {} THEN Len(u) ELSE SetMin(stops) - 1
    IN  IF n = 0 THEN NaN
        ELSE [nan |-> FALSE,
              value |-> IF signed /\ t[1] = "-"
                        THEN 0 - DigitsValue(SubSeq(u, 1, n))
                        ELSE DigitsValue(SubSeq(u, 1, n))]

\* The texts typed into "Maximum PDF pages": " 2x", "-3", "x" and "".
PageInputs ==
    { <<" ", "2", "x">>, <<"-", "3">>, <<"x">>, <<>> }

\* Maximum PDF pages: const num = parseInt(value, 10);
\* this.plugin.settings.pdfMaxPages = isNaN(num) ? 50 : Math.max(0, num)
PdfMaxPagesChanged ==
    /\ \E value \in PageInputs :
           LET num == parseInt(value)
           IN  SettingsChanged(
                   [settings EXCEPT !.pdfMaxPages =
                       IF num.nan THEN DefaultPdfMaxPages
                       ELSE IF num.value > 0 THEN num.value ELSE 0])
    /\ UNCHANGED tab

\* ------------------------------------------------------------------------
\* src/utils/pdf.ts: prepareImagePayload
\* ------------------------------------------------------------------------

\* fileName.split(".").pop(): what follows the last dot, the whole name
\* when it has none.
LastDotPart(fileName) ==
    SubSeq(fileName, LastIndexOf(fileName, ".") + 1, Len(fileName))

getImageMimeType(fileName) ==
    LET ext == LowerSeq(LastDotPart(fileName))
    IN  CASE ext = <<"p", "n", "g">> -> "image/png"
          [] ext \in { <<"j", "p", "g">>, <<"j", "p", "e", "g">> }
                -> "image/jpeg"
          [] ext = <<"w", "e", "b", "p">> -> "image/webp"
          [] ext = <<"g", "i", "f">> -> "image/gif"
          [] ext = <<"b", "m", "p">> -> "image/bmp"
          [] ext = <<"s", "v", "g">> -> "image/svg+xml"
          [] ext = <<"p", "d", "f">> -> "application/pdf"
          [] OTHER -> "application/octet-stream"

\* urlParts[urlParts.length - 1]: what follows the last "/".
LastUrlPart(source) ==
    SubSeq(source, LastIndexOf(source, "/") + 1, Len(source))

HexDigits ==
    {"0", "1", "2", "3", "4", "5", "6", "7", "8", "9",
     "a", "b", "c", "d", "e", "f", "A", "B", "C", "D", "E", "F"}

\* The digits a code point is written with.
HexChars ==
    <<"0", "1", "2", "3", "4", "5", "6", "7", "8", "9",
      "A", "B", "C", "D", "E", "F">>

HexValue(c) ==
    CASE c \in {"a", "A"} -> 10 [] c \in {"b", "B"} -> 11
      [] c \in {"c", "C"} -> 12 [] c \in {"d", "D"} -> 13
      [] c \in {"e", "E"} -> 14 [] c \in {"f", "F"} -> 15
      [] OTHER -> CHOOSE d \in 0..9 : HexChars[d + 1] = c

\* The characters of code 32 to 126; the grave accent, which no string here
\* can hold, is written as its code point.
AsciiPrintable ==
    <<" ", "!", "\"", "#", "$", "%", "&", "'", "(", ")", "*", "+", ",", "-",
      ".", "/", "0", "1", "2", "3", "4", "5", "6", "7", "8", "9", ":", ";",
      "<", "=", ">", "?", "@", "A", "B", "C", "D", "E", "F", "G", "H", "I",
      "J", "K", "L", "M", "N", "O", "P", "Q", "R", "S", "T", "U", "V", "W",
      "X", "Y", "Z", "[", "\\", "]", "^", "_", "U+0060", "a", "b", "c", "d",
      "e", "f", "g", "h", "i", "j", "k", "l", "m", "n", "o", "p", "q", "r",
      "s", "t", "u", "v", "w", "x", "y", "z", "{", "|", "}", "~">>

\* The character of a UTF-16 code unit: itself where a string can hold it,
\* else the text of its code point.
CodeUnitChar(u) ==
    IF u \in 32..126 THEN AsciiPrintable[u - 31]
    ELSE CASE u = 9 -> "\t" [] u = 10 -> "\n" [] u = 12 -> "\f"
           [] u = 13 -> "\r"
           [] OTHER -> "U+" \o HexChars[(u \div 4096) + 1]
                            \o HexChars[((u \div 256) % 16) + 1]
                            \o HexChars[((u \div 16) % 16) + 1]
                            \o HexChars[(u % 16) + 1]

\* The code units of a code point: one, or a surrogate pair above U+FFFF.
CodeUnits(v) ==
    IF v < 65536 THEN <<CodeUnitChar(v)>>
    ELSE <<CodeUnitChar(55296 + ((v - 65536) \div 1024)),
           CodeUnitChar(56320 + ((v - 65536) % 1024))>>

\* The octet of the escape %XY at position i of s, -1 when "%" and two
\* hexadecimal digits do not stand there.
EscapeAt(s, i) ==
    IF /\ i + 2 <= Len(s)
       /\ s[i] = "%"
       /\ s[i + 1] \in HexDigits
       /\ s[i + 2] \in HexDigits
    THEN 16 * HexValue(s[i + 1]) + HexValue(s[i + 2])
    ELSE -1

\* The number of octets of the UTF-8 sequence the octet b leads, 0 when b
\* leads none (10xxxxxx, or five leading one bits and more).
Utf8Length(b) ==
    IF b < 128 THEN 1
    ELSE IF b \in 192..223 THEN 2
    ELSE IF b \in 224..239 THEN 3
    ELSE IF b \in 240..247 THEN 4
    ELSE 0

\* The code point of the n escapes at position i of s, n >= 2, -1 when they
\* are no valid UTF-8: an octet that is no continuation, an overlong form,
\* a surrogate or a value above U+10FFFF.
Utf8CodePoint(s, i, n) ==
    LET b == EscapeAt(s, i)
        c1 == EscapeAt(s, i + 3)
        c2 == EscapeAt(s, i + 6)
        c3 == EscapeAt(s, i + 9)
    IN  IF \E k \in 1..(n - 1) : EscapeAt(s, i + 3 * k) \notin 128..191
        THEN -1
        ELSE IF n = 2
        THEN IF b < 194 THEN -1 ELSE (b - 192) * 64 + (c1 - 128)
        ELSE IF n = 3
        THEN LET v == (b - 224) * 4096 + (c1 - 128) * 64 + (c2 - 128)
             IN  IF v < 2048 \/ v \in 55296..57343 THEN -1 ELSE v
        ELSE LET v == (b - 240) * 262144 + (c1 - 128) * 4096
                          + (c2 - 128) * 64 + (c3 - 128)
             IN  IF v < 65536 \/ v > 1114111 THEN -1 ELSE v

\* decodeURIComponent from position i of s on: every escape sequence is
\* replaced by the character its octets encode in UTF-8; URIError on a "%"
\* that two hexadecimal digits do not follow and on octets that are no
\* valid UTF-8.
RECURSIVE Decode(_, _)
Decode(s, i) ==
    IF i > Len(s) THEN [threw |-> FALSE, text |-> <<>>]
    ELSE IF s[i] # "%"
    THEN LET rest == Decode(s, i + 1)
         IN  IF rest.threw THEN rest
             ELSE [threw |-> FALSE, text |-> <<s[i]>> \o rest.text]
    ELSE LET b == EscapeAt(s, i)
             n == IF b = -1 THEN 0 ELSE Utf8Length(b)
             v == IF n = 0 THEN -1
                  ELSE IF n = 1 THEN b
                  ELSE Utf8CodePoint(s, i, n)
         IN  IF v = -1 THEN [threw |-> TRUE, text |-> <<>>]
             ELSE LET rest == Decode(s, i + 3 * n)
                  IN  IF rest.threw THEN rest
                      ELSE [threw |-> FALSE,
                            text |-> CodeUnits(v) \o rest.text]

\* decodeURIComponent(s) throws URIError.
DecodeThrows(s) == Decode(s, 1).threw

\* What decodeURIComponent(s) returns when it does not throw.
decodeURIComponent(s) == Decode(s, 1).text

\* decodeURIComponent(urlParts[urlParts.length - 1]) || "image"
ExternalName(source) ==
    IF decodeURIComponent(LastUrlPart(source)) = <<>>
    THEN <<"i", "m", "a", "g", "e">>
    ELSE decodeURIComponent(LastUrlPart(source))

\* "http://h/"
UrlHost == <<"h", "t", "t", "p", ":", "/", "/", "h", "/">>

\* The last parts of the external sources: "c.png", "c%20d.png", "%", "",
\* "e.JPG", "x%2", "g.gif", "noext", "c%41.png", "%FF.png" and
\* "%C3%A9.png".
UrlLastParts ==
    { <<"c", ".", "p", "n", "g">>,
      <<"c", "%", "4", "1", ".", "p", "n", "g">>,
      <<"%", "F", "F", ".", "p", "n", "g">>,
      <<"%", "C", "3", "%", "A", "9", ".", "p", "n", "g">>,
      <<"c", "%", "2", "0", "d", ".", "p", "n", "g">>,
      <<"%">>, <<>>, <<"e", ".", "J", "P", "G">>, <<"x", "%", "2">>,
      <<"g", ".", "g", "i", "f">>, <<"n", "o", "e", "x", "t">> }

\* The paths of the vault files: "a.png", "f/b.jpg" and "n.pdf".
VaultPaths ==
    { <<"a", ".", "p", "n", "g">>, <<"f", "/", "b", ".", "j", "p", "g">>,
      <<"n", ".", "p", "d", "f">> }

\* The TFile at a path of the vault: its name is the last part of the path.
TFile(path) == [exists |-> TRUE, name |-> LastUrlPart(path)]

\* The references prepareImagePayload is given: external URLs, and link
\* texts of the vault with the TFile they resolved to, the one at the path
\* the link names or another, or with none.
CollectedImages ==
    {[source |-> UrlHost \o part, isExternal |-> TRUE, file |-> NoFile] :
        part \in UrlLastParts}
    \cup {[source |-> path, isExternal |-> FALSE, file |-> f] :
            path \in VaultPaths,
            f \in {NoFile} \cup {TFile(p) : p \in VaultPaths}}

\* return null
ReturnedNull == [returned |-> TRUE, isNull |-> TRUE]

\* A probe without dimensions taken for a failure.
PayloadNeedsDims(name, buf, dims, source) ==
    IF dims
    THEN [returned |-> TRUE, isNull |-> FALSE, name |-> name,
          base64 |-> arrayBufferToBase64(buf), mime |-> "image/png",
          size |-> Len(buf), hasDims |-> TRUE, source |-> source]
    ELSE ReturnedNull

\* The PreparedImage built from the bytes and the name.
Payload(name, buf, dims, source) ==
    [returned |-> TRUE,
     isNull   |-> FALSE,
     name     |-> name,
     base64   |-> arrayBufferToBase64(buf),
     mime     |-> getImageMimeType(name),
     size     |-> Len(buf),
     hasDims  |-> dims,
     source   |-> source]

\* The external branch up to the await of the dimension probe: the fetch,
\* null when it gave no buffer, then the name from the URL, whose decoding
\* may throw into the catch.
PrepareFetch ==
    /\ pc = "prepare_start"
    /\ img.isExternal
    /\ \E resp \in FetchResponses :
          /\ buffer' = fetchExternalImageAsArrayBuffer(resp)
          /\ IF buffer' = NoBuffer
             THEN /\ notices' = notices \cup {"Failed to fetch image."}
                  /\ payload' = ReturnedNull
                  /\ pc' = "done"
                  /\ result' = "prepare-null"
             ELSE IF DecodeThrows(LastUrlPart(img.source))
             THEN /\ payload' = ReturnedNull
                  /\ pc' = "done"
                  /\ result' = "prepare-caught"
                  /\ UNCHANGED notices
             ELSE /\ pc' = "prep_dims"
                  /\ UNCHANGED <<notices, payload, result>>
    /\ UNCHANGED <<escaped, locVars, progress, settings, pdfVars, provVars,
                   writes, folderVars, img, tab>>

\* if (!img.file) return null;
PrepareNoFile ==
    /\ pc = "prepare_start"
    /\ ~img.isExternal
    /\ ~img.file.exists
    /\ payload' = ReturnedNull
    /\ pc' = "done"
    /\ result' = "prepare-null"
    /\ UNCHANGED <<escaped, locVars, notices, progress, settings, buffer,
                   pdfVars, provVars, writes, folderVars, img, tab>>

\* arrayBuffer = await vault.readBinary(img.file) resolved.
PrepareRead ==
    /\ pc = "prepare_start"
    /\ ~img.isExternal
    /\ img.file.exists
    /\ buffer' \in Buffers
    /\ pc' = "prep_dims"
    /\ UNCHANGED <<result, escaped, locVars, notices, progress, settings,
                   pdfVars, provVars, writes, folderVars, img, payload, tab>>

\* vault.readBinary rejected: the catch of line 215 returns null.
PrepareReadRejects ==
    /\ pc = "prepare_start"
    /\ ~img.isExternal
    /\ img.file.exists
    /\ payload' = ReturnedNull
    /\ pc' = "done"
    /\ result' = "prepare-caught"
    /\ UNCHANGED <<escaped, locVars, notices, progress, settings, buffer,
                   pdfVars, provVars, writes, folderVars, img, tab>>

\* getImageDimensionsFromArrayBuffer resolved, to the dimensions (onload) or
\* to null (onerror): the PreparedImage is returned, under the name decoded
\* from the URL for an external reference and under img.file.name for a
\* vault file.
PrepareProbed ==
    /\ pc = "prep_dims"
    /\ \E dims \in BOOLEAN :
          payload' = Payload(IF img.isExternal THEN ExternalName(img.source)
                             ELSE img.file.name,
                             buffer, dims, img.source)
    /\ pc' = "done"
    /\ result' = "prepared"
    /\ UNCHANGED <<escaped, locVars, notices, progress, settings, buffer,
                   pdfVars, provVars, writes, folderVars, img, tab>>

InitPrepare ==
    /\ InitCommon
    /\ pc = "prepare_start"
    /\ editor = NoEditor
    /\ settings = DefaultSettings
    /\ files = <<>>
    /\ img \in CollectedImages

NextPrepare ==
    \/ PrepareFetch
    \/ PrepareNoFile
    \/ PrepareRead
    \/ PrepareReadRejects
    \/ PrepareProbed

SpecPrepare == InitPrepare /\ [][NextPrepare]_vars

\* ------------------------------------------------------------------------
\* src/main.ts: the command "extract-text-from-image"
\* ------------------------------------------------------------------------

\* "d.pdf"
NameDPdf == <<"d", ".", "p", "d", "f">>

\* "scan": a name without an extension.
NameScan == <<"s", "c", "a", "n">>

\* What input.files holds when the picker of selectImageFile closes: its
\* accept attribute is "image/*,application/pdf,.pdf".
PickerFiles ==
    { <<>>,
      << File(NameAPng, BufPng, "image/png") >>,
      << File(NameBJpg, BufShort, "") >>,
      << File(NameDPdf, BufPdf, "application/pdf") >>,
      << File(NameScan, BufPdf, "") >>,
      << File(NameScan, BufEmpty, "") >> }

\* The singleImage object given to buildOCRContext.
SingleImageContext(file, base64) ==
    [name      |-> BaseName(file.name),
     extension |-> IF IndexOf(file.name, ".") # 0
                   THEN ExtensionOf(file.name) ELSE <<>>,
     path      |-> file.name,
     size      |-> file.size,
     mime      |-> IF file.type # "" THEN file.type
                   ELSE getImageMimeType(file.name),
     base64    |-> base64]

\* if (!file): the picker closed without a file.
SingleNoFile ==
    /\ pc = "single_start"
    /\ files = <<>>
    /\ notices' = notices \cup {"No file selected for OCR."}
    /\ pc' = "done"
    /\ result' = "single-no-file"
    /\ UNCHANGED <<escaped, progress, settings, providerBuilt, writes,
                   embedVars, folderVars>>
    /\ UNCHANGED prepVars
    /\ UNCHANGED tab

\* selectImageFile resolved with a file: file.arrayBuffer() is called and
\* the command awaits it.
SingleSelected ==
    /\ pc = "single_start"
    /\ files # <<>>
    /\ pc' = "single_reading"
    /\ UNCHANGED <<result, escaped, notices, progress, settings,
                   providerBuilt, writes, embedVars, folderVars>>
    /\ UNCHANGED prepVars
    /\ UNCHANGED tab

\* file.arrayBuffer() resolved: the bytes are encoded and
\* getImageDimensionsFromArrayBuffer starts its probe, which the command
\* awaits.
SingleRead ==
    /\ pc = "single_reading"
    /\ buffer' = files[1].bytes
    /\ pc' = "single_probe"
    /\ UNCHANGED <<result, escaped, notices, progress, settings,
                   providerBuilt, writes, locVars, pdfVars, providerCalls,
                   allText, folderVars>>
    /\ UNCHANGED prepVars
    /\ UNCHANGED tab

\* file.arrayBuffer() rejected: the await is outside the try.
SingleReadRejects ==
    /\ pc = "single_reading"
    /\ escaped' = TRUE
    /\ pc' = "done"
    /\ result' = "single-read-rejected"
    /\ UNCHANGED <<notices, progress, settings, providerBuilt, writes,
                   embedVars, folderVars>>
    /\ UNCHANGED prepVars
    /\ UNCHANGED tab

\* The probe resolved (onload or onerror): getProvider gave an instance, the
\* Notice is shown and the provider is called with the base64 of the file;
\* the command awaits its answer.
SingleProbed ==
    /\ pc = "single_probe"
    /\ Provider.kind = "instance"
    /\ providerBuilt' = TRUE
    /\ progress' = "shown"
    /\ providerCalls' = Append(providerCalls, arrayBufferToBase64(buffer))
    /\ pc' = "single_extract"
    /\ UNCHANGED <<result, escaped, notices, settings, writes, locVars,
                   buffer, pdfVars, allText, folderVars>>
    /\ UNCHANGED prepVars
    /\ UNCHANGED tab

\* The probe resolved and getProvider gave no instance: as in the
\* embedded-image command, its throw leaves the command, and a value that
\* is no provider fails inside the try unless getProviderType(providerId)
\* throws first.
SingleNoProvider ==
    /\ pc = "single_probe"
    /\ Provider.kind # "instance"
    /\ \E typeThrows \in BOOLEAN :
           IF Provider.kind = "threw" \/ typeThrows
           THEN /\ escaped' = TRUE
                /\ UNCHANGED <<progress, notices>>
           ELSE /\ progress' = "hidden"
                /\ notices' = notices \cup {"Failed to extract text."}
                /\ UNCHANGED escaped
    /\ result' = NoProviderResult
    /\ pc' = "done"
    /\ UNCHANGED <<settings, providerBuilt, writes, embedVars, folderVars>>
    /\ UNCHANGED prepVars
    /\ UNCHANGED tab

\* provider.extractTextFromBase64(base64) resolved with text.
SingleExtracted ==
    /\ pc = "single_extract"
    /\ UNCHANGED providerCalls
    /\ progress' = "hidden"
    /\ pc' = "single_handle"
    /\ UNCHANGED <<result, escaped, notices, settings, providerBuilt,
                   writes, locVars, buffer, pdfVars, allText, folderVars>>
    /\ UNCHANGED prepVars
    /\ UNCHANGED tab

\* provider.extractTextFromBase64(base64) resolved with null or "".
SingleNoContent ==
    /\ pc = "single_extract"
    /\ UNCHANGED providerCalls
    /\ progress' = "hidden"
    /\ notices' = notices \cup {"No content returned from OCR."}
    /\ pc' = "done"
    /\ result' = "single-no-content"
    /\ UNCHANGED <<escaped, settings, providerBuilt, writes, locVars,
                   buffer, pdfVars, allText, folderVars>>
    /\ UNCHANGED prepVars
    /\ UNCHANGED tab

\* The catch shows the failure notice and leaves the progress notice up.
SingleProviderFailsNoticeLeft ==
    /\ pc = "single_extract"
    /\ UNCHANGED providerCalls
    /\ notices' = notices \cup {"Failed to extract text."}
    /\ pc' = "done"
    /\ result' = "single-provider-failed"
    /\ UNCHANGED <<escaped, progress, settings, providerBuilt, writes,
                   locVars, buffer, pdfVars, allText, folderVars>>
    /\ UNCHANGED prepVars
    /\ UNCHANGED tab

\* provider.extractTextFromBase64(base64) rejected: the catch.
SingleProviderFails ==
    /\ pc = "single_extract"
    /\ UNCHANGED providerCalls
    /\ progress' = "hidden"
    /\ notices' = notices \cup {"Failed to extract text."}
    /\ pc' = "done"
    /\ result' = "single-provider-failed"
    /\ UNCHANGED <<escaped, settings, providerBuilt, writes, locVars,
                   buffer, pdfVars, allText, folderVars>>
    /\ UNCHANGED prepVars
    /\ UNCHANGED tab

\* handleExtractedContent(this, content, editor, context) resolved.
SingleHandled ==
    /\ pc = "single_handle"
    /\ writes' = Append(writes,
          [op |-> "handleExtractedContent",
           content |-> OcrText(arrayBufferToBase64(buffer)),
           image |-> SingleImageContext(files[1],
                                        arrayBufferToBase64(buffer))])
    /\ pc' = "done"
    /\ result' = "single-handled"
    /\ UNCHANGED <<escaped, notices, progress, settings, providerBuilt,
                   embedVars, folderVars>>
    /\ UNCHANGED prepVars
    /\ UNCHANGED tab

\* handleExtractedContent rejected: the catch.
SingleHandleFails ==
    /\ pc = "single_handle"
    /\ notices' = notices \cup {"Failed to extract text."}
    /\ pc' = "done"
    /\ result' = "single-handle-failed"
    /\ UNCHANGED <<escaped, progress, settings, providerBuilt, writes,
                   embedVars, folderVars>>
    /\ UNCHANGED prepVars
    /\ UNCHANGED tab

InitSingle ==
    /\ InitCommon
    /\ pc = "single_start"
    /\ editor = NoEditor
    /\ settings \in {DefaultSettings} \cup ProviderSettingsChoices
    /\ files \in PickerFiles
    /\ img = NoImage

NextSingle ==
    \/ SingleNoFile
    \/ SingleSelected
    \/ SingleRead
    \/ SingleReadRejects
    \/ SingleProbed
    \/ SingleNoProvider
    \/ SingleExtracted
    \/ SingleNoContent
    \/ SingleProviderFails
    \/ SingleHandled
    \/ SingleHandleFails

SpecSingle == InitSingle /\ [][NextSingle]_vars

\* ------------------------------------------------------------------------
\* src/main.ts: insertOutputToEditor
\* ------------------------------------------------------------------------

\* The workspace has no active markdown view:
\* this.app.workspace.getActiveViewOfType(MarkdownView) gives null.
NoActiveView == [lines |-> <<>>, cursor |-> 0, sel |-> <<>>]

\* The texts insertOutputToEditor is called with: "", "x" and "x\ny".
InsertTexts == { <<>>, <<"x">>, <<"x", "\n", "y">> }

\* Without an active markdown view the notice is raised and nothing is
\* written; with one: editor.replaceSelection(text + "\n").
insertOutputToEditor ==
    /\ pc = "insert_start"
    /\ IF editor = NoActiveView
       THEN /\ notices' = notices
                  \cup {"No active editor to insert text into."}
            /\ result' = "insert-no-editor"
            /\ UNCHANGED writes
       ELSE /\ \E text \in InsertTexts :
                  writes' = Append(writes,
                      [op |-> "replaceSelection",
                       content |-> text \o <<"\n">>])
            /\ result' = "inserted"
            /\ UNCHANGED notices
    /\ pc' = "done"
    /\ UNCHANGED <<escaped, progress, settings, providerBuilt, embedVars,
                   folderVars>>
    /\ UNCHANGED prepVars
    /\ UNCHANGED tab

InitInsert ==
    /\ InitCommon
    /\ pc = "insert_start"
    /\ editor \in {NoActiveView} \cup CommandEditors
    /\ settings = DefaultSettings
    /\ files = <<>>
    /\ img = NoImage

SpecInsert == InitInsert /\ [][insertOutputToEditor]_vars

\* ------------------------------------------------------------------------
\* The program: one run of any of the commands, of prepareImagePayload or of
\* insertOutputToEditor. In these runs, as in those of the specifications
\* above, the settings tab stays closed: the settings are those the run
\* started with. SpecSettingsTab below has the runs in which it is opened.
\* ------------------------------------------------------------------------

InitProgram ==
    Init \/ InitFolder \/ InitPrepare \/ InitSingle \/ InitInsert

NextProgram ==
    Next \/ NextFolder \/ NextPrepare \/ NextSingle \/ insertOutputToEditor

SpecProgram == InitProgram /\ [][NextProgram]_vars

\* ------------------------------------------------------------------------
\* The program with its settings tab: a run of any command during which the
\* user opens the tab and edits settings
\* ------------------------------------------------------------------------

\* The notes the embedded-image command is run on: text without an embed,
\* an image of the vault, an image of the web and a PDF of the vault.
TabDocs ==
    {<<LineText>>, <<LineWikiPng>>, <<LineMdUrl>>, <<LineWikiPdfAlias>>}

\* The settings loadSettings() read: DEFAULT_SETTINGS, or a provider the
\* plugin does not know. The commands start as in InitProgram on a few of
\* its inputs: a folder of fewer than MaxFiles files, a note of TabDocs
\* with nothing selected, any picked file, a vault image with its own TFile.
InitSettingsTab ==
    /\ pc \in {"start", "folder_start", "prepare_start", "single_start",
               "insert_start"}
    /\ InitCommon
    /\ settings \in {DefaultSettings,
                      [DefaultSettings EXCEPT !.provider = "bogus"]}
    /\ files \in CASE pc = "folder_start"
                        -> {f \in Folders : Len(f) < MaxFiles}
                    [] pc = "single_start" -> PickerFiles
                    [] OTHER -> {<<>>}
    /\ editor \in CASE pc = "start"
                         -> {e \in CommandEditors :
                               e.lines \in TabDocs /\ e.sel = <<>>}
                     [] pc = "insert_start"
                         -> {NoActiveView}
                            \cup {e \in CommandEditors :
                                     e.lines = <<LineText>> /\ e.sel = <<>>}
                     [] OTHER -> {NoEditor}
    /\ img \in IF pc = "prepare_start"
               THEN {i \in CollectedImages :
                       i.isExternal \/ i.file \in {NoFile, TFile(i.source)}}
               ELSE {NoImage}

NextSettingsTab ==
    \/ NextProgram
    \/ TabOpened
    \/ ProviderChanged
    \/ ProviderDisplayed
    \/ OllamaModelChanged
    \/ LmstudioModelChanged
    \/ CustomApiModelChanged
    \/ NoteFolderPathChanged
    \/ NoteNameTemplateChanged
    \/ BatchNoteFolderPathChanged
    \/ BatchNoteNameTemplateChanged
    \/ PdfMaxPagesChanged

SpecSettingsTab == InitSettingsTab /\ [][NextSettingsTab]_vars

\* ------------------------------------------------------------------------
\* Properties of the embed locator
\* ------------------------------------------------------------------------

StrategyOrder == <<"selection", "lines", "cache", "raw">>

\* C1: the locating strategies are tried in the order selection, line scan,
\* metadata cache, raw file content; a strategy is consulted only when every
\* earlier one returned nothing; and the embed the command goes on with is
\* the one the first successful strategy returned, so an accepted embed of
\* the selection wins over one of the lines, which wins over the fallbacks.
C1_LocatePriority ==
    pc # "start" =>
        /\ Len(consulted) \in 1..4
        /\ \A i \in 1..Len(consulted) :
              consulted[i].strategy = StrategyOrder[i]
        /\ \A i \in 1..(Len(consulted) - 1) : consulted[i].result = NoEmbed
        /\ consulted[1].result = EmbedInText(editor.sel)
        /\ Len(consulted) >= 2 =>
              consulted[2].result = ScanLines(editor.lines, editor.cursor)
        /\ embed = consulted[Len(consulted)].result
        /\ EmbedInText(editor.sel) # NoEmbed =>
              embed = EmbedInText(editor.sel)
        /\ (pc = "source") = (embed # NoEmbed)

\* The selection holds an accepted embed, the line scan would have found a
\* different one, and the command goes on with the selection's.
C1_Witness ==
    /\ pc = "source"
    /\ EmbedInText(editor.sel) # NoEmbed
    /\ ScanLines(editor.lines, editor.cursor)
          \notin {NoEmbed, EmbedInText(editor.sel)}
    /\ embed = EmbedInText(editor.sel)

\* The extensions the locator accepts, as the specification lists them.
AcceptedExtensions ==
    { <<"p", "n", "g">>, <<"j", "p", "g">>, <<"j", "p", "e", "g">>,
      <<"g", "i", "f">>, <<"w", "e", "b", "p">>, <<"b", "m", "p">>,
      <<"s", "v", "g">>, <<"p", "d", "f">> }

\* The link has an extension (the text after its last dot) and, lower-cased,
\* it is one of the accepted ones.
HasAcceptedExtension(link) ==
    LET d == LastIndexOf(link, ".")
    IN  /\ d > 0
        /\ LowerSeq(SubSeq(link, d + 1, Len(link))) \in AcceptedExtensions

\* The links the patterns pick out of a text, and every stretch of them.
LinksOfText(s) ==
    LET w == MatchWiki(s, 1)
        m == MatchMarkdown(s, 1)
        L == (IF w.found THEN {w.group, WikiLink(w.group)} ELSE {})
             \cup (IF m.found THEN {m.group, MarkdownLink(m.group)} ELSE {})
    IN  UNION { {SubSeq(l, a, b) : a \in 1..Len(l), b \in 1..Len(l)} : l \in L }

CandidateLinks(ed) ==
    LinksOfText(ed.sel)
        \cup UNION {LinksOfText(ed.lines[i + 1]) : i \in 0..ed.cursor}

\* C2: isImage(link) holds exactly when the link's extension, compared
\* case-insensitively, is png, jpg, jpeg, gif, webp, bmp, svg or pdf; and
\* whatever findRelevantImageEmbed returns (from the selection or from the
\* lines) has a link with such an extension.
C2_IsImageFilter ==
    /\ \A l \in CandidateLinks(editor) : isImage(l) <=> HasAcceptedExtension(l)
    /\ \A i \in 1..Len(consulted) :
          (consulted[i].strategy \in {"selection", "lines"}
             /\ consulted[i].result # NoEmbed)
          => HasAcceptedExtension(consulted[i].result.link)

\* The locator returned an embed whose extension is written in upper case,
\* from an editor that also holds links the filter rejects.
C2_Witness ==
    /\ pc = "source"
    /\ consulted[Len(consulted)].strategy \in {"selection", "lines"}
    /\ embed.link # LowerSeq(embed.link)
    /\ \E l \in CandidateLinks(editor) : ~isImage(l) /\ Len(l) > 3

\* ------------------------------------------------------------------------
\* Properties of the embedded-image command
\* ------------------------------------------------------------------------

\* C3: when the command ends because no embed was located, the internal link
\* resolved to no vault file, or the source bytes could not be read, a
\* user-visible notice has been shown, no provider was constructed or
\* called, and nothing was written.
C3_AbortShowsNotice ==
    result \in {"no-embed", "file-not-found", "fetch-failed", "read-rejected"}
    => /\ notices # {}
       /\ ~providerBuilt
       /\ providerCalls = <<>>
       /\ writes = <<>>

\* The results of a run that ended on a failure.
FailureResults ==
    {"fetch-failed", "file-not-found", "read-rejected", "provider-failed",
     "handle-failed", "PDFEncryptedError", "PDFCorruptedError",
     "pdf-provider-failed", "pdf-handle-failed", "prepare-rejected",
     "batch-failed", "Unknown provider", "factory is not a function",
     "Cannot convert undefined or null to object",
     "Object.prototype.toLocaleString called on null or undefined",
     "provider-not-callable", "single-read-rejected",
     "single-provider-failed", "single-handle-failed"}

\* C4: a run that ended on a failure has written nothing, neither an editor
\* insertion nor a note; in the per-image mode of the folder batch, a
\* failure on the k-th note leaves none of the notes 1..k-1 written.
C4_NoPartialWrites == result \in FailureResults => writes = <<>>

\* C5: in the folder batch, an image whose bytes cannot be read is skipped
\* alone: the failure does not end the command and does not escape it.
C5_PrepareFailureSkipsImage ==
    (\E i \in 1..Len(tasks) : tasks[i].state = "rejected")
    => /\ ~escaped
       /\ result # "prepare-rejected"

\* The first n texts, "\n\n---\n\n" between each two.
RECURSIVE SeparatedUpTo(_, _)
SeparatedUpTo(texts, n) ==
    IF n = 1 THEN texts[1]
    ELSE SeparatedUpTo(texts, n - 1) \o <<"\n\n---\n\n">> \o texts[n]

\* The index of the page image whose text is t, 0 when there is none.
PageOfText(t) ==
    LET P == {k \in 1..Len(images) : OcrText(images[k].base64) = t}
    IN  IF P = {} THEN 0 ELSE SetMin(P)

\* C13: processPdfFile calls the provider once per page image, in page
\* order; the non-empty page texts are kept in page order; what is handed
\* on is the only text when one page yielded text and the texts joined by
\* "\n\n---\n\n" when several did; and a document longer than maxPages
\* gives at most maxPages page images.
C13_PdfTextsCombined ==
    (parsed /\ pc \in {"pdf_extract", "pdf_handle", "done"}) =>
        /\ Len(providerCalls) <= Len(images)
        /\ \A i \in 1..Len(providerCalls) :
              providerCalls[i] = images[i].base64
        /\ (pc = "pdf_handle" \/ result = "pdf-handled")
              => Len(providerCalls) = Len(images)
        /\ \A i \in 1..Len(allText) :
              /\ PageOfText(allText[i]) \in 1..Len(providerCalls)
              /\ \A j \in 1..Len(allText) :
                    i < j => PageOfText(allText[i]) < PageOfText(allText[j])
        /\ result = "pdf-handled"
              => /\ Len(writes) = 1
                 /\ writes[1].content = SeparatedUpTo(allText, Len(allText))
        /\ totalPages > maxPages => Len(images) <= maxPages

\* A document of three page images, the second of which gave no text, was
\* handed on.
C13_Witness ==
    /\ result = "pdf-handled"
    /\ Len(allText) = 2
    /\ Len(images) = 3
    /\ PageOfText(allText[1]) = 1
    /\ PageOfText(allText[2]) = 3

\* ------------------------------------------------------------------------
\* Properties of the folder batch
\* ------------------------------------------------------------------------

\* The content expected of an answer that holds k well-formed blocks.
ExpectedContent(k, answer) ==
    IF k >= 2 THEN [isArray |-> TRUE, value |-> [i \in 1..k |-> BlockText(i)]]
    ELSE IF k = 1 THEN [isArray |-> FALSE, value |-> BlockText(1)]
    ELSE [isArray |-> FALSE, value |-> Trim(answer)]

\* C11: an answer with n >= 2 well-formed blocks yields the array of the n
\* trimmed block texts in order; an answer with one block yields that
\* block's trimmed text as a string; an answer with no block yields the
\* trimmed answer as a string.
C11_BatchParsing ==
    pc = "batch_notes" =>
        /\ \A k \in 0..(Len(prepared) + 1) :
              response \in {BlocksResponse(1, k),
                            RawAnswer \o BlocksResponse(1, k) \o RawAnswer}
              => contentForFormatting = ExpectedContent(k, response)
        /\ response = BlocksResponse(1, 1) \o UnclosedBlock
              => contentForFormatting = ExpectedContent(1, response)

\* An answer of three blocks between free text was parsed.
C11_Witness ==
    /\ pc = "batch_notes"
    /\ response = RawAnswer \o BlocksResponse(1, 3) \o RawAnswer
    /\ contentForFormatting.isArray
    /\ Len(contentForFormatting.value) = 3

\* The i-th note claimed for a batch of n images answered with n blocks:
\* the i-th block with the context of the i-th image.
ExpectedNote(i, n) ==
    LET selected == ImageFilesOf(files)
        context(j) == [name |-> BaseName(selected[j].name),
                       extension |-> ExtensionOf(selected[j].name),
                       path |-> selected[j].name]
    IN  [op |-> "handleExtractedContent",
         content |-> BlockText(i),
         images |-> [j \in 1..n |-> context(j)],
         image |-> context(i),
         imageIndex |-> i,
         imageTotal |-> n]

\* The notes claimed for such a batch: one per image, in the order of the
\* files.
ExpectedNotes(n) == [i \in 1..n |-> ExpectedNote(i, n)]

\* A batch of N >= 2 images that process answered with N well-formed
\* blocks, under a note-name template, the one the batch uses, that
\* contains {{image.name}}.
BatchOfNBlocks ==
    /\ hasProcess
    /\ Len(prepared) >= 2
    /\ response = BlocksResponse(1, Len(prepared))
    /\ Includes(NoteNameTemplate(settings), TplImageName)

C16_PrepareNeverThrows ==
    /\ ~escaped
    /\ (pc = "done" /\ img # NoImage) =>
          /\ payload.returned
          /\ payload.isNull <=> result \in {"prepare-null", "prepare-caught"}
          /\ result = "prepared" =>
                /\ ~payload.isNull
                /\ payload.base64 = arrayBufferToBase64(buffer)
                /\ payload.source = img.source

\* A PreparedImage without dimensions was returned for a vault file.
C16_Witness ==
    /\ pc = "done"
    /\ ~img.isExternal
    /\ payload.returned
    /\ ~payload.isNull
    /\ ~payload.hasDims
    /\ buffer = BufShort

\* C17: fetching an external reference fails, and prepareImagePayload
\* returns null, whenever the status is not 200 or the body is empty.
C17_EmptyBodyFails ==
    (pc = "done" /\ img.isExternal /\ buffer = BufEmpty)
    => payload = ReturnedNull

\* ------------------------------------------------------------------------
\* Properties of every flow
\* ------------------------------------------------------------------------

\* The number of bytes a base64 text encodes: three for each four
\* characters, less one for each "=".
DecodedLength(b64) ==
    (Len(b64) \div 4) * 3 - Cardinality({i \in 1..Len(b64) : b64[i] = "="})

\* The text starts with no data-URL header and holds no ":" at all.
NoDataUrlPrefix(b64) ==
    \A i \in 1..Len(b64) : b64[i] \notin {"data:image/png;base64,", ":"}

\* C18: the size of every PreparedImage, of prepareImagePayload and of the
\* folder batch, is the number of bytes its base64 encodes; and no base64
\* handed to a provider, of a prepared image or of a PDF page, carries a
\* data-URL prefix.
C18_SizeAndBase64 ==
    /\ (payload.returned /\ ~payload.isNull)
          => /\ payload.size = DecodedLength(payload.base64)
             /\ NoDataUrlPrefix(payload.base64)
    /\ \A i \in 1..Len(prepared) :
          prepared[i].size = DecodedLength(prepared[i].base64)
    /\ \A i \in 1..Len(providerCalls) : NoDataUrlPrefix(providerCalls[i])
    /\ \A i \in 1..Len(batchCalls) :
          \A j \in 1..Len(batchCalls[i].images) :
              NoDataUrlPrefix(batchCalls[i].images[j])
    /\ \A i \in 1..Len(images) : NoDataUrlPrefix(images[i].base64)

\* Two folder images of four and three bytes were handed to process.
C18_Witness ==
    /\ Len(prepared) = 2
    /\ prepared[1].size = 4
    /\ prepared[2].size = 3
    /\ Len(batchCalls) = 1
    /\ Len(batchCalls[1].images) = 2

\* C15: parseEmbedInfo on the wiki embed ![[DIR/BASE.EXT|ALT]] gives the name
\* BASE, the extension EXT in its own letter case, the path DIR/BASE.EXT
\* and the alt text ALT, empty when the embed has no |ALT.
C15_ParseEmbedInfo ==
    result = "handled" =>
        \A dir \in EmbedDirs, base \in EmbedBases, ext \in EmbedExtensions,
           alt \in EmbedAlts :
            embed.embedText = WikiEmbed(dir, base, ext, alt)
            => writes[1].embed =
                   [name |-> base,
                    extension |-> ext,
                    path |-> dir \o <<"/">> \o base \o <<".">> \o ext,
                    altText |-> alt]

\* ![[a.b/c/p.v2.PNG|c]] was parsed.
C15_Witness ==
    /\ result = "handled"
    /\ embed.embedText =
          WikiEmbed(<<"a", ".", "b", "/", "c">>, <<"p", ".", "v", "2">>,
                    <<"P", "N", "G">>, <<"c">>)
    /\ writes[1].embed.name = <<"p", ".", "v", "2">>
    /\ writes[1].embed.extension = <<"P", "N", "G">>
    /\ writes[1].embed.altText = <<"c">>

\* C14: when the selection is exactly an internal image embed whose file
\* was read, and the provider returned a text T for it, the selection is
\* replaced by exactly T, once, and nothing else is written.
C14_SelectedEmbedReplaced ==
    ( /\ editor.sel # <<>>
      /\ editor.sel = embed.embedText
      /\ embed.embedType = "internal"
      /\ result \in {"replaced", "handled", "handle-failed"} )
    => writes = << [op |-> "replaceSelection",
                    content |-> OcrText(arrayBufferToBase64(buffer))] >>

\* The selected ![[a.png]] was replaced by the text of its bytes.
C14_Witness ==
    /\ editor.sel = LineWikiPng
    /\ embed.embedText = LineWikiPng
    /\ buffer = BufPng
    /\ result = "replaced"
    /\ Len(writes) = 1
    /\ writes[1].content = OcrText(arrayBufferToBase64(BufPng))

PageNumbers == [i \in 1..Len(images) |-> images[i].pageNumber]

\* convertPdfToImages has returned its images to processPdfFile.
PdfReturned ==
    totalPages > 0 /\ pc \notin {"pdf_load", "pdf_pages", "pdf_render"}

\* C6: convertPdfToImages never holds more than min(totalPages, maxPages)
\* page images, and their page numbers are strictly increasing and lie in
\* 1..min(totalPages, maxPages).
C6_PageBound ==
    totalPages > 0 =>
        /\ Len(images) <= Min(totalPages, maxPages)
        /\ \A i \in 1..Len(images) :
              PageNumbers[i] \in 1..Min(totalPages, maxPages)
        /\ \A i, j \in 1..Len(images) :
              i < j => PageNumbers[i] < PageNumbers[j]

\* The rasterizer returned from a PDF longer than maxPages, its first page
\* skipped: the first image keeps a page number above 1.
C6_Witness ==
    /\ PdfReturned
    /\ totalPages > maxPages
    /\ Len(images) >= 1
    /\ PageNumbers[1] > 1

\* C7: a page that fails (no canvas context, or a throw while loading or
\* rendering) drops only itself: every page of 1..min(totalPages, maxPages)
\* is tried, the images are exactly the pages that rendered, and the
\* function returns normally.
C7_FailureDropsOnePage ==
    totalPages > 0 =>
        /\ pc \in {"pdf_pages", "pdf_render"} => Len(outcomes) = pageNum - 1
        /\ PdfReturned => Len(outcomes) = Min(totalPages, maxPages)
        /\ \A p \in 1..Len(outcomes) :
              (outcomes[p] = "ok") <=>
                  (\E i \in 1..Len(images) : PageNumbers[i] = p)
        /\ ~escaped
        /\ result \notin {"PDFEncryptedError", "PDFCorruptedError"}

\* The rasterizer returned after a page threw, another got no context, and
\* a later page rendered.
C7_Witness ==
    /\ PdfReturned
    /\ \E p, q, r \in 1..Len(outcomes) :
          /\ outcomes[p] = "threw"
          /\ outcomes[q] = "noctx"
          /\ outcomes[r] = "ok"
          /\ p < r
          /\ q < r

\* C8: pdfjs getDocument is handed the buffer only if its first five bytes
\* are "%PDF-".
C8_ParsedOnlyWithMagic == parsed => isPdfBuffer(buffer)

\* C9: with "Maximum PDF pages" set to 0 the PDF is processed without limit:
\* when no page fails to render and no provider call fails, all the pages of
\* the document are rasterized and sent to the provider.
C9_ZeroMeansUnlimited ==
    ( /\ settings.pdfMaxPages = 0
      /\ totalPages >= 1
      /\ pc = "done"
      /\ \A p \in 1..Len(outcomes) : outcomes[p] = "ok"
      /\ result # "pdf-provider-failed" )
    => /\ Len(images) = totalPages
       /\ Len(providerCalls) = totalPages

\* C10: when the document cannot be loaded, the error is PDFEncryptedError
\* exactly when the failure's message contains "password" and
\* PDFCorruptedError otherwise; no page is rendered, no provider is called,
\* nothing is written, and each class has its own notice.
C10_LoadFailureClassified ==
    loadFailure # NoFailure =>
        /\ pc = "done"
        /\ result = IF Includes(loadFailure.message, Password)
                    THEN "PDFEncryptedError"
                    ELSE "PDFCorruptedError"
        /\ images = <<>>
        /\ outcomes = <<>>
        /\ providerCalls = <<>>
        /\ writes = <<>>
        /\ ~escaped
        /\ ("Cannot process password-protected PDF." \in notices)
              = (result = "PDFEncryptedError")
        /\ ("PDF appears to be corrupted or invalid." \in notices)
              = (result = "PDFCorruptedError")

\* A password-protected document was refused.
C10_Witness ==
    /\ loadFailure = [isError |-> TRUE, message |-> MsgNoPassword]
    /\ result = "PDFEncryptedError"
    /\ notices = {"Cannot process password-protected PDF."}

\* A command reached its getProvider call with an identifier that is no key
\* of factories, and has ended.
EndedWithoutProvider ==
    /\ pc = "done"
    /\ settings.provider \notin ProviderIds
    /\ result = NoProviderResult

\* C19: getProvider returns an instance for each of the 11 enumerated
\* provider identifiers; for any other identifier it raises the error
\* 'Unknown provider', and in every command that happens before any
\* provider call and before anything is written.
C19_UnknownProviderRaises ==
    /\ Cardinality(ProviderIds) = 11
    /\ \A id \in ProviderIds :
          /\ getProvider([DefaultSettings EXCEPT !.provider = id]).kind
                = "instance"
          /\ getProvider([DefaultSettings EXCEPT !.provider = id]).id = id
    /\ EndedWithoutProvider
       => /\ result = "Unknown provider"
          /\ ~providerBuilt
          /\ providerCalls = <<>>
          /\ batchCalls = <<>>
          /\ writes = <<>>

\* The folder images whose read or dimension probe has started and has not
\* completed.
InFlight ==
    {i \in 1..Len(tasks) : tasks[i].state \in {"reading", "probing"}}

\* C20: in the PDF rasterizer and in the folder batch, items are processed
\* strictly one at a time: page pageNum is started only when the pages
\* before it have completed, and the read, decode and probe steps of two
\* different folder images are never in flight at the same time.
C20_OneAtATime ==
    /\ pc \in {"pdf_pages", "pdf_render"} => Len(outcomes) = pageNum - 1
    /\ Cardinality(InFlight) <= 1

\* C21: a settings-tab change interleaved at a suspension point of the
\* folder batch has no effect on the command: the templates that route the
\* output to per-image notes or to one note are those of the settings in
\* effect when the command started, here the templates of DEFAULT_SETTINGS.
C21_SettingsSnapshot ==
    perImage = PerImageNotes(matches, DefaultSettings)

\* C22: in the folder batch, a provider that implements process is called
\* exactly once, with all prepared images in selection order and the batch
\* prompt; a provider without process gets one extractTextFromBase64 call
\* on the first prepared image, and no other image is sent.
C22_OneBatchCall ==
    batchCalls # <<>>
    => LET selected == ImageFilesOf(files)
       IN  /\ Len(batchCalls) = 1
           /\ Len(prepared) = Len(selected)
           /\ \A i \in 1..Len(prepared) :
                 /\ prepared[i].name = selected[i].name
                 /\ prepared[i].base64
                       = arrayBufferToBase64(selected[i].bytes)
           /\ IF hasProcess
              THEN /\ batchCalls[1].method = "process"
                   /\ batchCalls[1].prompt = "batchPrompt"
                   /\ batchCalls[1].images
                         = [i \in 1..Len(prepared) |-> prepared[i].base64]
              ELSE /\ batchCalls[1].method = "extractTextFromBase64"
                   /\ batchCalls[1].images = <<prepared[1].base64>>

\* A provider without process was given the first of several prepared
\* images, and the command has ended.
C22_Witness ==
    /\ pc = "done"
    /\ ~hasProcess
    /\ Len(prepared) >= 2
    /\ Len(batchCalls) = 1
    /\ prepared[2].base64 # prepared[1].base64

\* The notices the catch blocks of the commands show.
GenericFailureNotices ==
    {"Failed to extract text.", "Failed to process PDF.",
     "Failed to extract text from images."}

\* A step in which a provider call of one of the commands fails.
ProviderCallFails ==
    \/ SingleProviderFails
    \/ ImageProviderFails
    \/ PdfProviderFails
    \/ BatchProviderFails

\* C23: in the single-image, embedded-image, PDF and folder-batch commands,
\* a failure of the provider call is caught by the command: it ends with a
\* generic failure notice shown, nothing written and no exception leaving
\* the handler.
C23_ProviderFailureCaught ==
    [][ProviderCallFails
          => /\ pc' = "done"
             /\ notices' \cap GenericFailureNotices # {}
             /\ writes' = <<>>
             /\ ~escaped']_vars

\* The provider call on the second page of a PDF failed after the call on
\* the first page had answered.
C23_Witness ==
    /\ result = "pdf-provider-failed"
    /\ Len(providerCalls) = 2
    /\ Len(allText) = 1

\* The characters of s from a to b hold none of the characters of cs.
Without(s, a, b, cs) == \A i \in a..b : s[i] \notin cs

\* The internal embeds ![[LINK]] or ![[LINK|alias]] written anywhere in s
\* whose link has an accepted extension.
AcceptedInternalEmbeds(s) ==
    {SubSeq(s, p[1], p[2] + 1) :
        p \in {q \in (1..Len(s)) \X (1..Len(s)) :
                  /\ q[1] + 3 < q[2]
                  /\ HasAt(s, q[1], <<"!", "[", "[">>)
                  /\ HasAt(s, q[2], <<"]", "]">>)
                  /\ Without(s, q[1] + 3, q[2] - 1, {"[", "]"})
                  /\ isImage(WikiLink(SubSeq(s, q[1] + 3, q[2] - 1)))}}

\* The markdown embeds ![alt](target) written anywhere in s whose link has
\* an accepted extension.
AcceptedMarkdownEmbeds(s) ==
    {SubSeq(s, p[1], p[3]) :
        p \in {q \in (1..Len(s)) \X (1..Len(s)) \X (1..Len(s)) :
                  /\ q[1] + 2 <= q[2]
                  /\ q[2] + 2 < q[3]
                  /\ HasAt(s, q[1], <<"!", "[">>)
                  /\ HasAt(s, q[2], <<"]", "(">>)
                  /\ s[q[3]] = ")"
                  /\ Without(s, q[1] + 2, q[2] - 1, {"[", "]"})
                  /\ Without(s, q[2] + 2, q[3] - 1, {"(", ")"})
                  /\ isImage(MarkdownLink(SubSeq(s, q[2] + 2, q[3] - 1)))}}

AcceptedEmbeds(s) == AcceptedInternalEmbeds(s) \cup AcceptedMarkdownEmbeds(s)

\* The result of the line scan, once the selection gave nothing.
LineScanResult == consulted[2].result

\* C24: when the selection yields no accepted embed, the result is an
\* accepted embed of the greatest line L <= cursor line that contains one,
\* an internal one when that line contains an accepted internal embed, and
\* null when no line 0..cursor contains an accepted embed.
C24_NearestLineContaining ==
    Len(consulted) >= 2
    => LET H == {L \in 0..editor.cursor :
                    AcceptedEmbeds(editor.lines[L + 1]) # {}}
       IN  IF H = {} THEN LineScanResult = NoEmbed
           ELSE LET line == editor.lines[SetMax(H) + 1]
                IN  /\ LineScanResult # NoEmbed
                    /\ LineScanResult.embedText \in AcceptedEmbeds(line)
                    /\ AcceptedInternalEmbeds(line) # {}
                          => LineScanResult.embedText
                                \in AcceptedInternalEmbeds(line)

\* C25: a selection that contains an internal embed whose link has an
\* accepted extension makes findRelevantImageEmbed return an internal embed
\* of the selection with an accepted extension, also when other internal
\* embeds with non-accepted extensions precede it in the selection.
C25_SelectionInternalEmbed ==
    (pc # "start" /\ AcceptedInternalEmbeds(editor.sel) # {})
    => /\ consulted[1].result # NoEmbed
       /\ consulted[1].result.embedType = "internal"
       /\ consulted[1].result.embedText
             \in AcceptedInternalEmbeds(editor.sel)

\* The response parsed into more than one block and the effective note-name
\* template or the effective note-folder template has an image placeholder.
SplitExpected ==
    /\ Len(matches) > 1
    /\ \/ templateHasImagePlaceholder(
             IF settings.batchNoteNameTemplate # <<>>
             THEN settings.batchNoteNameTemplate
             ELSE settings.noteNameTemplate)
       \/ templateHasImagePlaceholder(
             IF settings.batchNoteFolderPath # <<>>
             THEN settings.batchNoteFolderPath
             ELSE settings.noteFolderPath)

\* C26: the output of the folder batch is split into per-image notes iff
\* the response parsed into more than one block and the effective note-name
\* template or the effective note-folder template has an {{image.<field>}}
\* placeholder; in every other case handleExtractedContent is invoked once,
\* with the combined content and the aggregate context.
C26_SplitRule ==
    /\ writes # <<>>
          => IF SplitExpected
             THEN /\ Len(writes) <= Len(prepared)
                  /\ \A i \in 1..Len(writes) :
                        /\ writes[i].imageIndex = i
                        /\ writes[i].imageTotal = Len(prepared)
             ELSE /\ Len(writes) = 1
                  /\ writes[1].imageIndex = 0
                  /\ writes[1].content = contentForFormatting.value
    /\ result = "batch-handled"
          => Len(writes) = IF SplitExpected THEN Len(prepared) ELSE 1

\* Only the note-folder template has an image placeholder, the response
\* held a block for each of several images, and a note per image was
\* written.
C26_Witness ==
    /\ result = "batch-handled"
    /\ ~templateHasImagePlaceholder(NoteNameTemplate(settings))
    /\ templateHasImagePlaceholder(settings.batchNoteFolderPath)
    /\ Len(matches) > 1
    /\ Len(writes) = Len(prepared)
    /\ Len(writes) >= 2

\* The bytes read by the single-image or the embedded-image command are
\* those of a PDF: the name of the source ends in .pdf or the bytes start
\* with %PDF-.
SourceIsPdf ==
    /\ buffer # NoBuffer
    /\ \/ isPdfBuffer(buffer)
       \/ files # <<>> /\ isPdfFile(files[1].name)
       \/ embed # NoEmbed /\ isPdfFile(embed.link)

\* C27: in the single-image and the embedded-image command, a source that
\* is a PDF reaches the provider only as rasterized page images: no
\* provider call carries the base64 of the raw bytes of the PDF.
C27_PdfOnlyRasterized ==
    SourceIsPdf
    => \A i \in 1..Len(providerCalls) :
          providerCalls[i] # arrayBufferToBase64(buffer)

\* C28: in the per-image mode of the folder batch, for N images and M >= 2
\* parsed blocks, the i-th per-image note is given the i-th parsed block,
\* never an undefined value, and once the notes are written every parsed
\* block has gone to a note.
C28_DefinedContent ==
    /\ \A i \in 1..Len(writes) :
          writes[i].imageIndex > 0
          => /\ writes[i].content # Undefined
             /\ i <= Len(matches)
             /\ writes[i].content = matches[i]
    /\ (result = "batch-handled" /\ perImage) => Len(matches) <= Len(writes)

\* C29: on every path by which the single-image, embedded-image,
\* folder-batch or PDF operation finishes after creating its progress
\* Notice, notice.hide() has been called before the command completes: no
\* command has ended with its progress notice still shown.
C29_NoticeHidden == pc = "done" => progress # "shown"

\* A PDF failed to load after the progress notice was created, and the
\* command ended with the notice hidden.
C29_Witness ==
    /\ pc = "done"
    /\ loadFailure # NoFailure
    /\ result \in {"PDFEncryptedError", "PDFCorruptedError"}
    /\ progress = "hidden"

\* C30: in the embedded-image command, for a non-PDF embed with non-empty
\* provider content, a selection that equals exactly the embed markup
\* matched in it gets the content by one editor.replaceSelection(content)
\* and handleExtractedContent is not invoked; otherwise
\* handleExtractedContent is invoked once and the command does not call
\* editor.replaceSelection. For a PDF embed the output always goes through
\* handleExtractedContent, even when the selection equals the embed.
C30_OutputRouting ==
    /\ result \in {"replaced", "handled", "handle-failed"}
          => IF /\ EmbedMatch(editor.sel).found
                /\ editor.sel = EmbedMatch(editor.sel).text
             THEN /\ result = "replaced"
                  /\ writes = << [op |-> "replaceSelection",
                                  content |->
                                     OcrText(arrayBufferToBase64(buffer))] >>
             ELSE /\ result # "replaced"
                  /\ \A i \in 1..Len(writes) :
                        writes[i].op = "handleExtractedContent"
                  /\ Len(writes) = IF result = "handled" THEN 1 ELSE 0
    /\ result \in {"pdf-handled", "pdf-handle-failed"}
          => /\ \A i \in 1..Len(writes) :
                   writes[i].op = "handleExtractedContent"
             /\ Len(writes) = IF result = "pdf-handled" THEN 1 ELSE 0

\* The selection holds an image embed after other text and the content
\* went through handleExtractedContent.
C30_Witness ==
    /\ result = "handled"
    /\ EmbedMatch(editor.sel).found
    /\ editor.sel # EmbedMatch(editor.sel).text
    /\ embed.embedText = EmbedMatch(editor.sel).text
    /\ Len(writes) = 1
    /\ writes[1].op = "handleExtractedContent"

====
